---- MODULE Spec2Model ----
(***************************************************************************)
(* Model of the scraper.  First the request governance:                    *)
(* core/rate_limiter.py, class RateLimiter (the spec's RateGovernor);      *)
(* then the scrape workflow: scrapers/walmart_scraper.py, the browser      *)
(* driver and the session store it uses, and scrape_site of main.py.       *)
(*                                                                         *)
(* Numbers.  The code computes with floats; the model computes exactly:    *)
(*   - time is counted in whole seconds (the poll interval of acquire);    *)
(*   - a token count is kept in units of 1/60 token, so that the refill    *)
(*     (elapsed / 60.0) * requests_per_minute is the integer               *)
(*     elapsed * requests_per_minute;                                      *)
(*   - a backoff multiplier and a sleep length are kept in units of        *)
(*     1/Unit, Unit = 2^MaxTriggers, so that every product of at most      *)
(*     MaxTriggers multipliers out of Multipliers is an integer.           *)
(* The two clocks of the code, datetime.now() and time.time(), are the     *)
(* one wall clock `now`, which never runs backwards here.                  *)
(***************************************************************************)
EXTENDS Integers, Sequences, FiniteSets, TLC

\* ------------------------------------------------------------ bounds
\* requests_per_minute is one of 0..MaxRpm
MaxRpm == 3
\* the callers call during the first MaxStart seconds
MaxStart == 4
\* a sleeper is resumed at most MaxLate seconds late
MaxLate == 1
\* the numbers of calls of acquire, of trigger_backoff, of the introspection
MaxAcquires == 3
MaxTriggers == 2
MaxQueries == 2

\* ------------------------------------------------- program constants
SecondsPerMinute == 60
PollInterval == 1
BackoffCap == 10
min_delay == 2
max_delay == 5

Sites == {"walmart", "target"}
\* the site of the scrape runs
Walmart == {"walmart"}
Callers == {"a", "b"}

RECURSIVE Pow2(_)
Pow2(n) == IF n = 0 THEN 1 ELSE 2 * Pow2(n - 1)

\* one unit of backoff multiplier / of sleep length is 1/Unit
Unit == Pow2(MaxTriggers)
\* one unit of token count is 1/SecondsPerMinute token
OneToken == SecondsPerMinute

\* the multiplier arguments of trigger_backoff, in halves: 0, 1/2, 2, 4
Multipliers == {0, 1, 4, 8}

\* the clock stops here: long enough for every acquire started by MaxStart
\* with requests_per_minute >= 1 to return
MaxTime == MaxStart + SecondsPerMinute + BackoffCap * max_delay + 3 * (MaxLate + 1)

VARIABLES
    requests_per_minute,  \* self.requests_per_minute
    now,                  \* the wall clock, in seconds
    tokens,               \* self.tokens: site -> token count (1/60 token)
    last_refill,          \* self.last_refill: site -> time
    backoff_multiplier,   \* self.backoff_multiplier: site -> multiplier (1/Unit)
    last_request_time,    \* self.last_request_time: site -> time
    pc,                   \* per caller: "idle", "poll" (line 92), "delay" (lines 108, 110)
    site,                 \* per caller: the argument of its acquire
    backoff,              \* per caller: the local `backoff` of acquire (line 100)
    sleepStart,           \* per caller: when its asyncio.sleep began
    sleepLen,             \* per caller: the argument of its asyncio.sleep (1/Unit s)
    ret,                  \* the last operation that returned, and its result
    admits,               \* history: per site, the times of the token consumptions
    gap,                  \* history: per site, the spacing of the last completion
    acquires,             \* history: number of acquire calls so far
    triggers,             \* history: number of trigger_backoff calls so far
    queries,              \* history: number of introspection calls so far
    started,              \* BrowserDriver: page and context are set
    context_cookies,      \* BrowserDriver: the names of the cookies of the context
    sessions,             \* SessionManager: file name -> what the session file holds
    session_manager,      \* BaseScraper.session_manager is not None
    current_zipcode,      \* WalmartScraper.current_zipcode
    step,                 \* the position of the running scraper operation
    args,                 \* the arguments of the running scraper operation
    result,               \* what the last scraper operation returned
    main,                 \* the position of the caller of the scraper
    product_urls,         \* scrape_site: product_urls
    products,             \* scrape_site: products
    calls,                \* history: number of operations a client has called
    navigations,          \* history: number of page.goto issued
    completed,            \* history: number of acquire calls that returned
    interactions,         \* history: per stage the running operation reached, the selectors tried
    saves,                \* history: number of save_session calls
    signal,               \* history: a navigation met HTTP 429/503, and what followed
    backoff_used,         \* history: the multiplier the last acquire read
    fetched,              \* history: per get_product_details call, index and outcome
    before                \* history: what held when the running operation was called

\* the state of the scraper and of what it drives
scraper == <<started, context_cookies, sessions, session_manager, current_zipcode, step,
             args, result>>
\* the state of the caller of the scraper
caller == <<main, product_urls, products, calls>>
history == <<navigations, completed, interactions, saves, signal, backoff_used,
             fetched, before>>
workflow == <<scraper, caller, history>>

\* the state of the rate limiter and of the callers of acquire
governor == <<requests_per_minute, now, tokens, last_refill, backoff_multiplier,
              last_request_time, pc, site, backoff, sleepStart, sleepLen, ret,
              admits, gap, acquires, triggers, queries>>

vars == <<governor, workflow>>

budget == <<acquires, triggers, queries>>

limiter == <<tokens, last_refill, backoff_multiplier, last_request_time>>
locals == <<pc, site, backoff, sleepStart, sleepLen>>

\* ------------------------------------------------------ dictionaries
Empty == [x \in {} |-> 0]
Put(d, k, v) == [x \in (DOMAIN d) \cup {k} |-> IF x = k THEN v ELSE d[x]]
Get(d, k, default) == IF k \in DOMAIN d THEN d[k] ELSE default

Min(a, b) == IF a <= b THEN a ELSE b

\* the spacing of two completions d seconds apart, the later one of a call that
\* used the backoff multiplier bo: "spaced" when d >= min_delay * bo
Spacing(d, bo) == IF d * Unit >= min_delay * bo THEN "spaced" ELSE "close"

\* `ret` when the last step returned nothing to a caller
NoRet == [op |-> "none", val |-> 0, den |-> 1, err |-> "none"]

\* RateLimiter.__init__
RateLimiterInit ==
    /\ requests_per_minute \in 0..MaxRpm
    /\ now = 0
    /\ tokens = Empty
    /\ last_refill = Empty
    /\ backoff_multiplier = Empty
    /\ last_request_time = Empty
    /\ pc = [c \in Callers |-> "idle"]
    /\ site = [c \in Callers |-> "walmart"]
    /\ backoff = [c \in Callers |-> Unit]
    /\ sleepStart = [c \in Callers |-> 0]
    /\ sleepLen = [c \in Callers |-> 0]
    /\ ret = NoRet
    /\ admits = [s \in Sites |-> <<>>]
    /\ gap = [s \in Sites |-> "none"]
    /\ acquires = 0
    /\ triggers = 0
    /\ queries = 0

\* `result` when no scraper operation has returned
NoResult == [op |-> "none", val |-> "none", err |-> "none", why |-> "none"]
\* `args` and `before` when no scraper operation runs
NoArgs == [zipcode |-> "none", max_results |-> 0, url |-> "none", index |-> 0]
NoBefore == [zipcode |-> "None", lookup |-> "none", saves |-> 0, navigations |-> 0]

\* BrowserDriver.__init__, SessionManager.__init__ over the session files
\* `files`, BaseScraper.__init__, and the first lines of scrape_site
ScraperInit(files) ==
    /\ started = FALSE
    /\ context_cookies = {}
    /\ sessions = files
    /\ current_zipcode = "None"
    /\ step = "idle"
    /\ args = NoArgs
    /\ result = NoResult
    /\ main = [at |-> "start", i |-> 0]
    /\ product_urls = <<>>
    /\ products = <<>>
    /\ calls = 0
    /\ navigations = 0
    /\ completed = 0
    /\ interactions = {}
    /\ saves = 0
    /\ signal = "none"
    /\ backoff_used = Unit
    /\ fetched = <<>>
    /\ before = NoBefore

\* a RateLimiter on its own: no session file, and the scraper is not run
Init ==
    /\ RateLimiterInit
    /\ ScraperInit(Empty)
    /\ session_manager = TRUE

\* ------------------------------------------------- _refill_tokens
Capacity == requests_per_minute * OneToken

\* _refill_tokens without the cap of lines 67-70
RefilledTokensNoCap(s) ==
    IF s \notin DOMAIN last_refill
    THEN Capacity
    ELSE tokens[s] + (now - last_refill[s]) * requests_per_minute

\* _refill_tokens that adds nothing for the time elapsed
RefilledTokensStuck(s) ==
    IF s \notin DOMAIN last_refill THEN Capacity ELSE tokens[s]

\* the token count of site s after _refill_tokens(s)
RefilledTokens(s) ==
    IF s \notin DOMAIN last_refill
    THEN Capacity
    ELSE Min(tokens[s] + (now - last_refill[s]) * requests_per_minute, Capacity)

\* ------------------------------------------------------ asyncio.sleep
\* caller c suspends in asyncio.sleep(len / Unit) and continues at `at`
Sleep(c, len, at) ==
    /\ pc' = [pc EXCEPT ![c] = at]
    /\ sleepStart' = [sleepStart EXCEPT ![c] = now]
    /\ sleepLen' = [sleepLen EXCEPT ![c] = len]

\* asyncio.sleep returns no earlier than after its argument
SleepOver(c) == (now - sleepStart[c]) * Unit >= sleepLen[c]

\* the first whole second at which the sleep of caller c is over
WakeTime(c) ==
    IF sleepLen[c] <= 0
    THEN sleepStart[c]
    ELSE sleepStart[c] + (sleepLen[c] + Unit - 1) \div Unit

Sleepers == {c \in Callers : pc[c] # "idle"}

\* Time passes.  While callers may call (the first MaxStart seconds) the clock
\* shows every second; later the code reads the clock only when a sleeper is
\* resumed, and the clock goes from one such time to the next.  The event loop
\* resumes a sleeper at most MaxLate seconds late.
NextTime ==
    IF now < MaxStart
    THEN now + 1
    ELSE LET first == CHOOSE c \in Sleepers : \A o \in Sleepers : WakeTime(c) <= WakeTime(o)
         IN  IF WakeTime(first) > now THEN WakeTime(first) ELSE now + 1

Tick ==
    /\ now < MaxStart \/ Sleepers # {}
    /\ NextTime <= MaxTime
    /\ \A c \in Sleepers : NextTime <= WakeTime(c) + MaxLate
    /\ now' = NextTime
    /\ ret' = NoRet
    /\ UNCHANGED <<requests_per_minute, limiter, locals, admits, gap, budget>>
    /\ UNCHANGED workflow

\* ------------------------------------------------------------ acquire
\* line 90: the loop goes on while tokens < 1.0
HasToken(t) == t >= OneToken

\* line 96: tokens[site] -= 1.0
Consume(t) == t - OneToken

\* total_delay without the backoff multiplier
TotalDelayNoBackoff(base, bo) == base * Unit

\* line 101: total_delay = base_delay * backoff   (1/Unit s)
TotalDelay(base, bo) == base * bo

\* line 113, with the history of the completion: how long after the previous
\* completion for the site this one comes, and the backoff the call used
Complete(c, s, bo) ==
    /\ gap' = [gap EXCEPT ![s] =
                 IF s \in DOMAIN last_request_time
                 THEN Spacing(now - last_request_time[s], bo)
                 ELSE "first"]
    /\ last_request_time' = Put(last_request_time, s, now)

\* acquire returns: the frame of caller c is gone
Return(c) ==
    /\ pc' = [pc EXCEPT ![c] = "idle"]
    /\ sleepStart' = [sleepStart EXCEPT ![c] = 0]
    /\ sleepLen' = [sleepLen EXCEPT ![c] = 0]

\* lines 98-113, up to the first suspension
Delay(c, s, base) ==
    LET bo == Get(backoff_multiplier, s, Unit)
        total_delay == TotalDelay(base, bo)
    IN  /\ IF s \in DOMAIN last_request_time
           THEN LET time_since_last == (now - last_request_time[s]) * Unit
                IN  IF time_since_last < total_delay
                    THEN /\ Sleep(c, total_delay - time_since_last, "delay")
                         /\ backoff' = [backoff EXCEPT ![c] = bo]
                         /\ UNCHANGED <<last_request_time, gap>>
                    ELSE /\ Complete(c, s, bo)
                         /\ Return(c)
                         /\ backoff' = [backoff EXCEPT ![c] = Unit]
           ELSE /\ Sleep(c, total_delay, "delay")
                /\ backoff' = [backoff EXCEPT ![c] = bo]
                /\ UNCHANGED <<last_request_time, gap>>

\* lines 87-96 from a refill on, up to the first suspension: the refill, the
\* test of the loop, and either the poll sleep or the consumption and the delay
Admit(c, s) ==
    LET t == RefilledTokens(s)
    IN  /\ last_refill' = Put(last_refill, s, now)
        /\ \/ /\ ~HasToken(t)
              /\ tokens' = Put(tokens, s, t)
              /\ Sleep(c, PollInterval * Unit, "poll")
              /\ UNCHANGED <<backoff, last_request_time, admits, gap>>
           \/ /\ HasToken(t)
              /\ tokens' = Put(tokens, s, Consume(t))
              /\ admits' = [admits EXCEPT ![s] = Append(@, now)]
              /\ \E base \in min_delay..max_delay : Delay(c, s, base)

\* acquire(site) is called by caller c
acquire(c, s) ==
    /\ pc[c] = "idle"
    /\ now <= MaxStart
    /\ site' = [site EXCEPT ![c] = s]
    /\ acquires < MaxAcquires
    /\ acquires' = acquires + 1
    /\ Admit(c, s)
    /\ ret' = NoRet
    /\ UNCHANGED <<requests_per_minute, now, backoff_multiplier, triggers, queries>>
    /\ UNCHANGED workflow

\* the poll with `if` for `while`: after the sleep the token is taken untested
acquire_poll_once(c) ==
    /\ pc[c] = "poll"
    /\ SleepOver(c)
    /\ last_refill' = Put(last_refill, site[c], now)
    /\ tokens' = Put(tokens, site[c], Consume(RefilledTokens(site[c])))
    /\ admits' = [admits EXCEPT ![site[c]] = Append(@, now)]
    /\ \E base \in min_delay..max_delay : Delay(c, site[c], base)
    /\ ret' = NoRet
    /\ UNCHANGED <<requests_per_minute, now, backoff_multiplier, site, budget>>
    /\ UNCHANGED workflow

\* lines 92-93: the poll sleep is over, refill and test again
acquire_poll(c) ==
    /\ pc[c] = "poll"
    /\ SleepOver(c)
    /\ Admit(c, site[c])
    /\ ret' = NoRet
    /\ UNCHANGED <<requests_per_minute, now, backoff_multiplier, site, budget>>
    /\ UNCHANGED workflow

\* lines 108/110 to 113: the delay sleep is over, record the request time
acquire_delayed(c) ==
    /\ pc[c] = "delay"
    /\ SleepOver(c)
    /\ Complete(c, site[c], backoff[c])
    /\ Return(c)
    /\ backoff' = [backoff EXCEPT ![c] = Unit]
    /\ ret' = NoRet
    /\ UNCHANGED <<requests_per_minute, now, tokens, last_refill, backoff_multiplier,
                   site, admits, budget>>
    /\ UNCHANGED workflow

\* ------------------------------------------------------------ backoff
\* line 127: min(current_backoff * multiplier, 10.0); m is in halves
NextBackoff(current_backoff, m) == Min((current_backoff * m) \div 2, BackoffCap * Unit)

trigger_backoff(s, m) ==
    /\ now <= MaxStart
    /\ triggers < MaxTriggers
    /\ triggers' = triggers + 1
    /\ backoff_multiplier' =
         Put(backoff_multiplier, s, NextBackoff(Get(backoff_multiplier, s, Unit), m))
    /\ ret' = NoRet
    /\ UNCHANGED <<requests_per_minute, now, tokens, last_refill, last_request_time,
                   locals, admits, gap, acquires, queries>>
    /\ UNCHANGED workflow

\* line 136
ResetValue == Unit

\* reset_backoff that resets the multiplier of every site
reset_backoff_every(s) ==
    /\ now <= MaxStart
    /\ backoff_multiplier' = [x \in DOMAIN backoff_multiplier \cup {s} |-> ResetValue]
    /\ ret' = NoRet
    /\ UNCHANGED <<requests_per_minute, now, tokens, last_refill, last_request_time,
                   locals, admits, gap, budget>>
    /\ UNCHANGED workflow

reset_backoff(s) ==
    /\ now <= MaxStart
    /\ backoff_multiplier' = Put(backoff_multiplier, s, ResetValue)
    /\ ret' = NoRet
    /\ UNCHANGED <<requests_per_minute, now, tokens, last_refill, last_request_time,
                   locals, admits, gap, budget>>
    /\ UNCHANGED workflow

\* ------------------------------------------------------ introspection
Query ==
    /\ now <= MaxStart
    /\ queries < MaxQueries
    /\ queries' = queries + 1
    /\ UNCHANGED <<requests_per_minute, now, locals, admits, gap, acquires, triggers>>
    /\ UNCHANGED workflow

get_current_rate(s) ==
    /\ Query
    /\ ret' = [op |-> "get_current_rate", val |-> Get(tokens, s, Capacity),
               den |-> OneToken, err |-> "none"]
    /\ UNCHANGED limiter

get_backoff_multiplier(s) ==
    /\ Query
    /\ ret' = [op |-> "get_backoff_multiplier", val |-> Get(backoff_multiplier, s, Unit),
               den |-> Unit, err |-> "none"]
    /\ UNCHANGED limiter

\* is_rate_limited over a refill that forgets line 71, the new last_refill
is_rate_limited_stale(s) ==
    LET t == RefilledTokens(s)
    IN  /\ Query
        /\ tokens' = Put(tokens, s, t)
        /\ last_refill' = IF s \in DOMAIN last_refill
                          THEN last_refill
                          ELSE Put(last_refill, s, now)
        /\ ret' = [op |-> "is_rate_limited", val |-> IF t < OneToken THEN 1 ELSE 0,
                   den |-> 1, err |-> "none"]
        /\ UNCHANGED <<backoff_multiplier, last_request_time>>

\* lines 173-174; the result is 1 for True, 0 for False
is_rate_limited(s) ==
    LET t == RefilledTokens(s)
    IN  /\ Query
        /\ tokens' = Put(tokens, s, t)
        /\ last_refill' = Put(last_refill, s, now)
        /\ ret' = [op |-> "is_rate_limited", val |-> IF t < OneToken THEN 1 ELSE 0,
                   den |-> 1, err |-> "none"]
        /\ UNCHANGED <<backoff_multiplier, last_request_time>>

\* lines 186-195; the result is val / den seconds:
\* tokens_needed * (60.0 / requests_per_minute), and 60.0 / 0 raises
WaitTime(t) ==
    IF t >= OneToken
    THEN [op |-> "get_wait_time", val |-> 0, den |-> 1, err |-> "none"]
    ELSE IF requests_per_minute = 0
         THEN [op |-> "get_wait_time", val |-> 0, den |-> 1, err |-> "ZeroDivisionError"]
         ELSE [op |-> "get_wait_time", val |-> OneToken - t,
               den |-> requests_per_minute, err |-> "none"]

get_wait_time(s) ==
    LET t == RefilledTokens(s)
    IN  /\ Query
        /\ tokens' = Put(tokens, s, t)
        /\ last_refill' = Put(last_refill, s, now)
        /\ ret' = WaitTime(t)
        /\ UNCHANGED <<backoff_multiplier, last_request_time>>

\* ------------------------------------------------------ specifications
Step(c, S) ==
    \/ \E s \in S : acquire(c, s)
    \/ acquire_poll(c)
    \/ acquire_delayed(c)

\* one sequential caller, the scheduling model of a scrape run: it calls the
\* operations one after the other, each when the one before has returned
Idle == \A c \in Callers : pc[c] = "idle"

Next ==
    \/ Tick
    \/ Step("a", Walmart)
    \/ \E s \in Walmart, m \in Multipliers : Idle /\ trigger_backoff(s, m)
    \/ \E s \in Walmart : Idle /\ reset_backoff(s)
    \/ \E s \in Walmart : Idle /\ get_current_rate(s)
    \/ \E s \in Walmart : Idle /\ get_backoff_multiplier(s)
    \/ \E s \in Walmart : Idle /\ is_rate_limited(s)
    \/ \E s \in Walmart : Idle /\ get_wait_time(s)

Spec == Init /\ [][Next]_vars

\* the sequential caller that acquires and looks at the buckets, where time
\* passes and the event loop resumes a sleeper whose sleep is over
LiveNext ==
    \/ Tick
    \/ Step("a", Walmart)
    \/ \E s \in Walmart : Idle /\ is_rate_limited(s)
    \/ \E s \in Walmart : Idle /\ get_wait_time(s)

LiveSpec ==
    /\ Init
    /\ [][LiveNext]_vars
    /\ WF_vars(Tick)
    /\ WF_vars(acquire_poll("a"))
    /\ WF_vars(acquire_delayed("a"))

\* a pool of workers that share the RateLimiter and call acquire for the same
\* site, interleaved at the suspension points of acquire
ConcNext ==
    \/ Tick
    \/ \E c \in Callers : Step(c, Walmart)

ConcSpec == Init /\ [][ConcNext]_vars

\* one RateLimiter shared by the runs against two sites: each run calls the
\* operations for its own site, one after the other
SitesNext ==
    \/ Tick
    \/ acquire_poll("a")
    \/ acquire_delayed("a")
    \/ /\ acquires + triggers + queries < MaxAcquires
       /\ \E s \in Sites :
             \/ acquire("a", s)
             \/ Idle /\ trigger_backoff(s, 4)
             \/ Idle /\ reset_backoff(s)
             \/ Idle /\ get_current_rate(s)
             \/ Idle /\ get_backoff_multiplier(s)
             \/ Idle /\ is_rate_limited(s)
             \/ Idle /\ get_wait_time(s)

SitesInit == Init /\ requests_per_minute = 1

SitesSpec == SitesInit /\ [][SitesNext]_vars

\* ============================================================ workflow
\* ------------------------------------------------------------ bounds
\* every selector list of the site configuration has MaxSelectors selectors
MaxSelectors == 2
\* a selector of the search page matches at most MaxLinks elements
MaxLinks == 2
\* max_results is one of 0..MaxResults
MaxResults == 2
\* a client of the scraper calls at most MaxCalls operations
MaxCalls == 2
\* a run finds at most MaxFiles session files
MaxFiles == 1

\* ------------------------------------------------------- environment
Zipcodes == {"90210", "10001"}
\* the cookie lists of a browser context or of a session file
CookieLists == {<<>>, <<"locDataV3">>}
Range(s) == {s[k] : k \in DOMAIN s}
Origin == "https://www.walmart.com"
\* the href of an element: relative, absolute, or none
NoHref == [origin |-> "", path |-> ""]
Hrefs == {[origin |-> "", path |-> "/ip/1"], [origin |-> Origin, path |-> "/ip/2"]}
Elements == Hrefs \cup {NoHref}
\* the HTTP status of the response to a navigation
Statuses == {200, 429, 503}
RateLimitStatuses == {429, 503}

SeqsUpTo(S, n) == UNION {[1..k -> S] : k \in 0..n}
\* what the product_link selectors match on a search page, selector by
\* selector: a first selector, and a fallback or none
SearchPages ==
    LET Matches == SeqsUpTo(Elements, MaxLinks)
    IN  {<<first>> : first \in Matches}
          \cup {<<first, fallback>> : first \in Matches, fallback \in Matches}
Remove(d, k) == [x \in (DOMAIN d) \ {k} |-> d[x]]

\* ---------------------------------------------------- SessionManager
\* SessionManager.__init__: max_age is timedelta(hours=max_age_hours), here
\* in seconds
max_age_hours == 24
max_age == max_age_hours * 60 * SecondsPerMinute

\* the name of the session file of (site, zipcode) in cache_dir
get_session_path(s, z) == s \o "_" \o z \o ".json"

\* what a session file holds: the cookies and created_at of the session, and
\* the form of the file: "iso" with created_at an ISO timestamp (the time
\* `created_at`, in seconds), "missing" without the key created_at, "garbled"
\* with a created_at that fromisoformat rejects, "truncated" when the file is
\* not JSON
Forms == {"iso", "missing", "garbled", "truncated"}
Session(cookies, created_at, form) ==
    [cookies |-> cookies, created_at |-> created_at, form |-> form]
\* the files that are not a session save_session wrote
Malformed == {Session(<<>>, 0, form) : form \in Forms \ {"iso"}}
\* the session files a run may find when it starts, at time 0: per zipcode
\* none, a session written just now or max_age ago, or a malformed file
SessionRecords ==
    {Session(cookies, 0 - age, "iso") : cookies \in CookieLists, age \in {0, max_age}}
        \cup Malformed
SessionFiles ==
    UNION {[{get_session_path("walmart", z) : z \in Z} -> SessionRecords] :
             Z \in {F \in SUBSET Zipcodes : Cardinality(F) <= MaxFiles}}

\* is_session_valid that takes a session of age max_age as valid
is_session_valid_late(session) ==
    /\ session.form = "iso"
    /\ now - session.created_at <= max_age

\* is_session_valid: False without created_at and when fromisoformat raises,
\* else age < self.max_age
is_session_valid(session) ==
    /\ session.form = "iso"
    /\ now - session.created_at < max_age

\* what load_session returns when it returns None
NoSession == [found |-> FALSE, session |-> Session(<<>>, 0, "missing")]

\* load_session: None when there is no file, when json.load raises, and when
\* the session is not valid
load_session(s, z) ==
    LET session_path == get_session_path(s, z)
    IN  IF session_path \notin DOMAIN sessions THEN NoSession
        ELSE IF sessions[session_path].form = "truncated" THEN NoSession
        ELSE IF is_session_valid(sessions[session_path])
             THEN [found |-> TRUE, session |-> sessions[session_path]]
             ELSE NoSession

\* why load_session returns None: "file" when there is none, "json" when
\* json.load raises, "invalid" when the session is not valid
NoneBecause(s, z) ==
    LET session_path == get_session_path(s, z)
    IN  IF session_path \notin DOMAIN sessions THEN "file"
        ELSE IF sessions[session_path].form = "truncated" THEN "json"
        ELSE IF is_session_valid(sessions[session_path]) THEN "none"
        ELSE "invalid"

\* load_session that leaves the file of an invalid session where it is
LoadedKept(s, z) == sessions

\* the files after load_session, which unlinks the file of an invalid session
Loaded(s, z) ==
    LET session_path == get_session_path(s, z)
    IN  IF /\ session_path \in DOMAIN sessions
           /\ sessions[session_path].form # "truncated"
           /\ ~is_session_valid(sessions[session_path])
        THEN Remove(sessions, session_path)
        ELSE sessions

\* the files after delete_session
delete_session(s, z) == Remove(sessions, get_session_path(s, z))

\* load_session of the scraper's site returns a session
HasSession(z) == load_session("walmart", z).found

\* get_cookies: the cookie list of the session, or None (found is FALSE)
get_cookies(z) ==
    IF HasSession(z)
    THEN [found |-> TRUE, cookies |-> load_session("walmart", z).session.cookies]
    ELSE [found |-> FALSE, cookies |-> <<>>]

\* `if cookies:` of set_location: neither None nor an empty list
Truthy(c) == c.found /\ c.cookies # <<>>

\* what the write of save_session does: the file is written, open raises and
\* leaves the files as they are, or json.dump raises after open has emptied
\* the file
WriteOutcomes == {"written", "unopened", "truncated"}

\* save_session that keeps the created_at of the session it overwrites
save_session_aged(s, z, cookies, outcome) ==
    LET session_path == get_session_path(s, z)
        created_at == IF session_path \in DOMAIN sessions
                      THEN sessions[session_path].created_at ELSE now
    IN  IF outcome = "unopened" THEN sessions
        ELSE Put(sessions, session_path, Session(cookies, created_at, "iso"))

\* the files after save_session; an exception of the write is only printed
save_session(s, z, cookies, outcome) ==
    LET session_path == get_session_path(s, z)
    IN  CASE outcome = "written" ->
               Put(sessions, session_path, Session(cookies, now, "iso"))
          [] outcome = "unopened" -> sessions
          [] outcome = "truncated" ->
               Put(sessions, session_path, Session(<<>>, 0, "truncated"))

\* ---------------------------------------------------- SelectorEngine
\* what soup.select gives in place of an element when the query, or the
\* reading of the element, raises
Broken == [origin |-> "", path |-> "Exception"]

\* the loop over the elements of one selector: the results, whether the
\* limit made it return, and whether an exception ended it
RECURSIVE SelectElements(_, _, _)
SelectElements(elements, results, limit) ==
    IF elements = <<>>
    THEN [results |-> results, returned |-> FALSE, raised |-> FALSE]
    ELSE IF limit # 0 /\ Len(results) >= limit
         THEN [results |-> results, returned |-> TRUE, raised |-> FALSE]
         ELSE IF Head(elements) = Broken
         THEN [results |-> results, returned |-> FALSE, raised |-> TRUE]
         ELSE SelectElements(Tail(elements),
                             IF Head(elements) # NoHref
                             THEN Append(results, Head(elements))
                             ELSE results,
                             limit)

RECURSIVE SelectSelectors(_, _, _)
SelectSelectors(matches, results, limit) ==
    IF matches = <<>>
    THEN results
    ELSE LET r == SelectElements(Head(matches), results, limit)
         IN  IF ~r.raised /\ (r.returned \/ r.results # <<>>)
             THEN r.results
             ELSE SelectSelectors(Tail(matches), r.results, limit)

select_many(matches, limit) == SelectSelectors(matches, <<>>, limit)

\* str.strip
RECURSIVE strip(_)
strip(text) ==
    IF text = <<>> THEN text
    ELSE IF Head(text) = " " THEN strip(Tail(text))
    ELSE IF text[Len(text)] = " " THEN strip(SubSeq(text, 1, Len(text) - 1))
    ELSE text

\* what soup.select_one gives for a selector: an exception, no element, or
\* the first element that matches, with its text and the value of its
\* attribute (empty when it has none)
Candidate(raises, found, text, value) ==
    [raises |-> raises, found |-> found, text |-> text, value |-> value]

\* what select_one returns: None, or a text
NoText == [found |-> FALSE, text |-> <<>>]

\* select_one: the attribute is tested as it is and returned stripped, the text
\* is stripped and then tested
RECURSIVE select_one(_, _)
select_one(candidates, attr) ==
    IF candidates = <<>> THEN NoText
    ELSE LET element == Head(candidates)
         IN  IF element.raises \/ ~element.found
             THEN select_one(Tail(candidates), attr)
             ELSE IF attr
             THEN IF element.value # <<>>
                  THEN [found |-> TRUE, text |-> strip(element.value)]
                  ELSE select_one(Tail(candidates), attr)
             ELSE IF strip(element.text) # <<>>
                  THEN [found |-> TRUE, text |-> strip(element.text)]
                  ELSE select_one(Tail(candidates), attr)

\* lines 178-179 of search_products: a link that starts with '/' gets the origin
Absolute(link) == IF link.origin = "" THEN [link EXCEPT !.origin = Origin] ELSE link

\* product_urls[:max_results], max_results >= 0
Truncated(urls, max_results) == SubSeq(urls, 1, Min(Len(urls), max_results))

\* search_products that returns every link select_many gave it
ProductUrlsUntruncated(page, max_results) ==
    LET links == select_many(page, max_results)
    IN  [k \in 1..Len(links) |-> Absolute(links[k])]

\* lines 164-183 of search_products
ProductUrls(page, max_results) ==
    LET links == select_many(page, max_results)
    IN  Truncated([k \in 1..Len(links) |-> Absolute(links[k])], max_results)

\* what search_products returns over the search pages, by max_results
UrlLists == [m \in 0..MaxResults |-> {ProductUrls(page, m) : page \in SearchPages}]

ProductLinks == {Absolute(h) : h \in Hrefs}

\* ------------------------------------------------------------ texts
\* A text is the sequence of its characters; None is <<>>, as select_one
\* without attr returns no empty text.  The character Nines stands for a run of nines
\* longer than int() converts: int raises ValueError for more than 4300
\* digits.
Nines == "9..."
digit == ("0" :> 0 @@ "1" :> 1 @@ "2" :> 2 @@ "3" :> 3 @@ "4" :> 4 @@ "5" :> 5
            @@ "6" :> 6 @@ "7" :> 7 @@ "8" :> 8 @@ "9" :> 9 @@ Nines :> 9)

\* re.search of \d+\.?\d* (fraction) or of \d+ in the text: the digits
\* before the point and those after it
search(text, fraction) ==
    LET Digit(i) == i \in 1..Len(text) /\ text[i] \in DOMAIN digit
        RunEnd(i) == CHOOSE j \in i..Len(text) :
                        (\A k \in i..j : Digit(k)) /\ ~Digit(j + 1)
        starts == {i \in 1..Len(text) : Digit(i)}
        start == CHOOSE i \in starts : \A j \in starts : i <= j
        point == RunEnd(start) + 1
        pointed == fraction /\ point <= Len(text) /\ text[point] = "."
    IN  IF starts = {} THEN [found |-> FALSE, whole |-> <<>>, decimals |-> <<>>]
        ELSE [found |-> TRUE,
              whole |-> SubSeq(text, start, point - 1),
              decimals |-> IF pointed /\ Digit(point + 1)
                           THEN SubSeq(text, point + 1, RunEnd(point + 1))
                           ELSE <<>>]

\* int() of a run of digits; the conversion raises when the run is too long
RECURSIVE int(_)
int(digits) ==
    IF digits = <<>> THEN 0
    ELSE 10 * int(SubSeq(digits, 1, Len(digits) - 1)) + digit[digits[Len(digits)]]
TooLong(digits) == \E i \in 1..Len(digits) : digits[i] = Nines

\* float() of a match, in hundredths (the texts have two decimals at most)
float(match) ==
    LET d == match.decimals
    IN  100 * int(match.whole)
          + (IF Len(d) >= 1 THEN 10 * digit[d[1]] ELSE 0)
          + (IF Len(d) >= 2 THEN digit[d[2]] ELSE 0)

\* an Optional number: None, or the number (floats in hundredths)
None == [some |-> FALSE, amount |-> 0]
Some(n) == [some |-> TRUE, amount |-> n]

\* normalize_price
normalize_price(price_str) ==
    LET Kept(c) == c \notin {"$", ","}
        clean == SelectSeq(price_str, Kept)
        dashes == {i \in 1..Len(clean) : clean[i] = "-"}
        first == IF dashes = {} THEN clean
                 ELSE SubSeq(clean, 1, (CHOOSE i \in dashes : \A j \in dashes : i <= j) - 1)
        match == search(first, TRUE)
    IN  IF price_str = <<>> THEN None
        ELSE IF match.found THEN Some(float(match))
        ELSE None

\* normalize_rating without its test of the 0-5 range
normalize_rating_unchecked(rating_str) ==
    LET match == search(rating_str, TRUE)
    IN  IF match.found THEN Some(float(match)) ELSE None

\* normalize_rating
normalize_rating(rating_str) ==
    LET match == search(rating_str, TRUE)
    IN  IF match.found /\ 0 <= float(match) /\ float(match) <= 5 * 100
        THEN Some(float(match))
        ELSE None

\* str.lower, and `word in text`
lower(text) ==
    LET small == ("A" :> "a" @@ "B" :> "b" @@ "C" :> "c" @@ "D" :> "d" @@ "E" :> "e"
                    @@ "F" :> "f" @@ "G" :> "g" @@ "H" :> "h" @@ "I" :> "i" @@ "J" :> "j"
                    @@ "K" :> "k" @@ "L" :> "l" @@ "M" :> "m" @@ "N" :> "n" @@ "O" :> "o"
                    @@ "P" :> "p" @@ "Q" :> "q" @@ "R" :> "r" @@ "S" :> "s" @@ "T" :> "t"
                    @@ "U" :> "u" @@ "V" :> "v" @@ "W" :> "w" @@ "X" :> "x" @@ "Y" :> "y"
                    @@ "Z" :> "z")
    IN  [i \in 1..Len(text) |-> IF text[i] \in DOMAIN small THEN small[text[i]] ELSE text[i]]
Contains(text, word) ==
    \E i \in 1..(Len(text) - Len(word) + 1) : SubSeq(text, i, i + Len(word) - 1) = word

\* parse_availability; `raises` when int() of the quantity does
parse_availability(status_text) ==
    LET status_lower == lower(status_text)
        match == search(status_text, FALSE)
        Availability(in_stock, quantity, status) ==
            [raises |-> FALSE, in_stock |-> in_stock, quantity |-> quantity,
             status |-> status]
    IN  IF status_text = <<>> THEN Availability("None", None, "unknown")
        ELSE IF \/ Contains(status_lower, <<"o", "u", "t", " ", "o", "f", " ", "s", "t", "o", "c", "k">>)
                \/ Contains(status_lower, <<"u", "n", "a", "v", "a", "i", "l", "a", "b", "l", "e">>)
                \/ Contains(status_lower, <<"s", "o", "l", "d", " ", "o", "u", "t">>)
        THEN Availability("False", Some(0), "out_of_stock")
        ELSE IF \/ Contains(status_lower, <<"l", "i", "m", "i", "t", "e", "d">>)
                \/ Contains(status_lower, <<"o", "n", "l", "y">>)
        THEN IF match.found /\ TooLong(match.whole)
             THEN [Availability("True", None, "limited") EXCEPT !.raises = TRUE]
             ELSE Availability("True", IF match.found THEN Some(int(match.whole)) ELSE None,
                               "limited")
        ELSE Availability("True", None, "in_stock")

\* ---------------------------------------------------------- Product
\* what select_one gives on a product page for the selectors of each field
Page(name, current_price, original_price, stock_status, rating_avg, rating_count) ==
    [name |-> name, current_price |-> current_price, original_price |-> original_price,
     stock_status |-> stock_status, rating_avg |-> rating_avg,
     rating_count |-> rating_count]

\* the fields of a Product that parse_product and validate work on
Product(name, url, product_site, zipcode, current_price, original_price, discount_percent, quantity_available, rating_avg, rating_count) ==
    [name |-> name, url |-> url, site |-> product_site, zipcode |-> zipcode,
     current_price |-> current_price, original_price |-> original_price,
     discount_percent |-> discount_percent, quantity_available |-> quantity_available,
     rating_avg |-> rating_avg, rating_count |-> rating_count]

\* Product.validate that takes a product without a name
validate_unnamed(product) ==
    /\ product.url # NoHref /\ product.site # "" /\ product.zipcode # ""
    /\ ~(product.current_price.some /\ product.current_price.amount < 0)
    /\ ~(product.original_price.some /\ product.original_price.amount < 0)
    /\ ~(product.rating_avg.some
           /\ ~(0 <= product.rating_avg.amount /\ product.rating_avg.amount <= 5 * 100))
    /\ ~(product.rating_count.some /\ product.rating_count.amount < 0)
    /\ ~(product.quantity_available.some /\ product.quantity_available.amount < 0)

\* Product.validate
validate(product) ==
    /\ ~(product.name = <<>> \/ product.url = NoHref \/ product.site = ""
           \/ product.zipcode = "")
    /\ ~(product.current_price.some /\ product.current_price.amount < 0)
    /\ ~(product.original_price.some /\ product.original_price.amount < 0)
    /\ ~(product.rating_avg.some
           /\ ~(0 <= product.rating_avg.amount /\ product.rating_avg.amount <= 5 * 100))
    /\ ~(product.rating_count.some /\ product.rating_count.amount < 0)
    /\ ~(product.quantity_available.some /\ product.quantity_available.amount < 0)

\* what parse_product returns when it returns None
NoProduct == [url |-> NoHref, zipcode |-> "None"]

\* parse_product: None without a name and when a conversion raises, else the
\* Product, valid or not.  discount_percent is the quotient num / den.
parse_product(page, url) ==
    LET current_price == normalize_price(page.current_price)
        original_price == normalize_price(page.original_price)
        discounted == /\ current_price.some /\ current_price.amount # 0
                      /\ original_price.some /\ original_price.amount # 0
                      /\ original_price.amount > current_price.amount
        availability == parse_availability(page.stock_status)
        match == search(page.rating_count, FALSE)
    IN  IF page.name = <<>> THEN NoProduct
        ELSE IF availability.raises \/ (match.found /\ TooLong(match.whole)) THEN NoProduct
        ELSE Product(page.name, url, "walmart",
                     IF current_zipcode = "None" THEN "unknown" ELSE current_zipcode,
                     current_price, original_price,
                     [some |-> discounted,
                      num |-> IF discounted
                              THEN (original_price.amount - current_price.amount) * 100
                              ELSE 0,
                      den |-> IF discounted THEN original_price.amount ELSE 1],
                     availability.quantity,
                     normalize_rating(page.rating_avg),
                     IF match.found THEN Some(int(match.whole)) ELSE None)

\* --------------------------------------------- return and exception
\* what the except clause of a scraper operation returns
Default(op) ==
    IF op = "set_location" THEN FALSE
    ELSE IF op = "search_products" THEN <<>>
    ELSE NoProduct

\* the get_product_details calls that have returned, with the history of it
Fetched(op, val) ==
    IF op = "get_product_details"
    THEN Append(fetched, [index |-> args.index, url |-> args.url,
                          outcome |-> IF val = NoProduct THEN "absent" ELSE "record"])
    ELSE fetched

\* the operation returns val; `why` tells what made it fail
Returns(op, val, why) ==
    /\ step' = "idle"
    /\ result' = [op |-> op, val |-> val, err |-> "none", why |-> why]
    /\ fetched' = Fetched(op, val)

\* an operation without its except clause: the exception leaves the operation
Raises(op, why) ==
    /\ step' = "idle"
    /\ result' = [op |-> op, val |-> Default(op), err |-> "Exception", why |-> why]
    /\ fetched' = fetched

\* `except Exception` of set_location (127-129), search_products (185-187) and
\* get_product_details (223-225)
Except(op, why) == Returns(op, Default(op), why)

\* the operation goes on
Goto(next) ==
    /\ step' = next
    /\ UNCHANGED <<result, fetched>>

\* `await self.rate_limiter.acquire('walmart')` as the scraper sees it: the call
\* returns (with requests_per_minute = 0 it never does), having read the
\* backoff multiplier of the site.  What acquire does to the buckets and how
\* long it takes is the subject of Spec, ConcSpec and LiveSpec.
AwaitAcquire ==
    /\ requests_per_minute >= 1
    /\ completed' = completed + 1
    /\ backoff_used' = Get(backoff_multiplier, "walmart", Unit)
    /\ signal' = IF signal = "reported" THEN "acquired" ELSE signal

\* BrowserDriver.get called outside the try of the operation
DriverGetUncaught(op, next) ==
    IF ~started
    THEN /\ Raises(op, "not_started")
         /\ UNCHANGED <<navigations, signal>>
    ELSE /\ navigations' = navigations + 1
         /\ \E status \in Statuses, loaded \in BOOLEAN :
               IF loaded
               THEN /\ Goto(next)
                    /\ signal' = IF status \in RateLimitStatuses THEN "reported" ELSE "none"
               ELSE /\ Raises(op, "driver")
                    /\ signal' = "none"

\* BrowserDriver.get: RuntimeError when not started, else page.goto, which may
\* time out; the status of the response is not looked at
DriverGet(op, next) ==
    IF ~started
    THEN /\ Except(op, "not_started")
         /\ UNCHANGED <<navigations, signal>>
    ELSE /\ navigations' = navigations + 1
         /\ \E status \in Statuses, loaded \in BOOLEAN :
               IF loaded
               THEN /\ Goto(next)
                    /\ signal' = IF status \in RateLimitStatuses THEN "reported" ELSE "none"
               ELSE /\ Except(op, "driver")
                    /\ signal' = "none"

\* ------------------------------------------------------ set_location
\* set_location(zipcode) is called
set_location(z) ==
    /\ step = "idle"
    /\ step' = "sl_acquire"
    /\ args' = [NoArgs EXCEPT !.zipcode = z]
    /\ result' = NoResult
    /\ before' = [zipcode |-> current_zipcode, lookup |-> "none", saves |-> saves,
                  navigations |-> navigations]
    /\ interactions' = {}
    /\ UNCHANGED <<started, context_cookies, sessions, session_manager, current_zipcode, navigations,
                   completed, saves, signal, backoff_used, fetched, governor>>

\* lines 44-45
set_location_acquire ==
    /\ step = "sl_acquire"
    /\ AwaitAcquire
    /\ Goto("sl_session")
    /\ UNCHANGED <<started, context_cookies, sessions, session_manager, current_zipcode, args,
                   navigations, interactions, saves, before, caller, governor>>

\* lines 48-54: the session lookup, and the return when it gave cookies
set_location_session ==
    LET z == args.zipcode
        cookies == get_cookies(z)
    IN  /\ step = "sl_session"
        /\ sessions' = IF session_manager THEN Loaded("walmart", z) ELSE sessions
        /\ before' = [before EXCEPT !.lookup = IF ~session_manager THEN "none"
                                               ELSE IF HasSession(z) THEN "valid"
                                               ELSE "miss"]
        /\ IF session_manager /\ Truthy(cookies)
           THEN IF ~started
                THEN /\ Except("set_location", "not_started")
                     /\ UNCHANGED <<context_cookies, current_zipcode>>
                ELSE \E added \in BOOLEAN :
                        IF added
                        THEN /\ context_cookies' = context_cookies \cup Range(cookies.cookies)
                             /\ current_zipcode' = z
                             /\ Returns("set_location", TRUE, "none")
                        ELSE /\ Except("set_location", "driver")
                             /\ UNCHANGED <<context_cookies, current_zipcode>>
           ELSE /\ Goto("sl_get")
                /\ UNCHANGED <<context_cookies, current_zipcode>>
        /\ UNCHANGED <<started, session_manager, args, navigations, completed,
                       interactions, saves, signal, backoff_used, caller, governor>>

\* set_location that takes the zipcode as set when it starts on the modal
set_location_get_eager ==
    /\ step = "sl_get"
    /\ DriverGet("set_location", "sl_button")
    /\ current_zipcode' = args.zipcode
    /\ UNCHANGED <<started, context_cookies, sessions, session_manager, args, completed, interactions,
                   saves, backoff_used, before, caller, governor>>

\* line 57
set_location_get ==
    /\ step = "sl_get"
    /\ DriverGet("set_location", "sl_button")
    /\ UNCHANGED <<started, context_cookies, sessions, session_manager, current_zipcode, args,
                   completed, interactions, saves, backoff_used, before, caller,
                   governor>>

\* the loop over the selectors of a stage without its `break`
AttemptsUnbroken(usable) ==
    [k \in 1..MaxSelectors |-> [selector |-> k, ok |-> k \in usable]]

\* the loop over the selectors of a stage: the click or fill of each selector
\* in list order, up to the first that does not raise (`usable` are the
\* selectors for which it does not)
Attempts(usable) ==
    LET last == IF usable = {} THEN MaxSelectors
                ELSE CHOOSE k \in usable : \A j \in usable : k <= j
    IN  [k \in 1..last |-> [selector |-> k, ok |-> k \in usable]]

\* a stage of the location modal without its `return False`
LocationStageSoft(stage, next) ==
    \E works \in SUBSET (1..MaxSelectors) :
        LET usable == IF started THEN works ELSE {}
        IN  /\ interactions' = interactions \cup {[stage |-> stage, done |-> usable # {},
                                                    tried |-> Attempts(usable)]}
            /\ Goto(next)

\* one stage of the location modal: the loop over the selectors of the stage,
\* with a click or fill for each until one succeeds (`works` are the selectors
\* for which it does), and the return of False when none does.  A driver that
\* is not started raises in every click and fill.
LocationStage(stage, next) ==
    \E works \in SUBSET (1..MaxSelectors) :
        LET usable == IF started THEN works ELSE {}
        IN  /\ interactions' = interactions \cup {[stage |-> stage, done |-> usable # {},
                                                    tried |-> Attempts(usable)]}
            /\ IF usable = {}
               THEN Returns("set_location", FALSE, stage)
               ELSE Goto(next)

\* lines 61-75
set_location_button ==
    /\ step = "sl_button"
    /\ LocationStage("location_button", "sl_input")
    /\ UNCHANGED <<started, context_cookies, sessions, session_manager, current_zipcode, args,
                   navigations, completed, saves, signal, backoff_used, before,
                   caller, governor>>

\* lines 81-95
set_location_input ==
    /\ step = "sl_input"
    /\ LocationStage("zipcode_input", "sl_submit")
    /\ UNCHANGED <<started, context_cookies, sessions, session_manager, current_zipcode, args,
                   navigations, completed, saves, signal, backoff_used, before,
                   caller, governor>>

\* lines 98-112
set_location_submit ==
    /\ step = "sl_submit"
    /\ LocationStage("submit_button", "sl_save")
    /\ UNCHANGED <<started, context_cookies, sessions, session_manager, current_zipcode, args,
                   navigations, completed, saves, signal, backoff_used, before,
                   caller, governor>>

\* lines 118-125: the cookies of the context are saved as the session
set_location_save ==
    /\ step = "sl_save"
    /\ IF ~session_manager
       THEN /\ current_zipcode' = args.zipcode
            /\ Returns("set_location", TRUE, "none")
            /\ UNCHANGED <<sessions, saves>>
       ELSE IF ~started
       THEN /\ Except("set_location", "not_started")
            /\ UNCHANGED <<sessions, session_manager, saves, current_zipcode>>
       ELSE \E read \in BOOLEAN :
               IF read
               THEN \E cookies \in CookieLists, outcome \in WriteOutcomes :
                       /\ sessions' = save_session("walmart", args.zipcode, cookies, outcome)
                       /\ saves' = saves + 1
                       /\ current_zipcode' = args.zipcode
                       /\ Returns("set_location", TRUE, "none")
               ELSE /\ Except("set_location", "driver")
                    /\ UNCHANGED <<sessions, session_manager, saves, current_zipcode>>
    /\ UNCHANGED <<started, context_cookies, session_manager, args, navigations,
                   completed, interactions, signal, backoff_used, before, caller,
                   governor>>

\* --------------------------------------------------- search_products
\* search_products(query, max_results) is called
search_products(m) ==
    /\ step = "idle"
    /\ step' = "sp_acquire"
    /\ args' = [NoArgs EXCEPT !.max_results = m]
    /\ result' = NoResult
    /\ before' = [zipcode |-> current_zipcode, lookup |-> "none", saves |-> saves,
                  navigations |-> navigations]
    /\ interactions' = {}
    /\ UNCHANGED <<started, context_cookies, sessions, session_manager, current_zipcode, navigations,
                   completed, saves, signal, backoff_used, fetched,
                   governor>>

\* search_products of a scraper built without a rate limiter
search_products_unlimited ==
    /\ step = "sp_acquire"
    /\ Goto("sp_get")
    /\ UNCHANGED <<started, context_cookies, sessions, session_manager, current_zipcode, args,
                   navigations, completed, interactions, saves, signal, backoff_used,
                   before, caller, governor>>

\* lines 151-152
search_products_acquire ==
    /\ step = "sp_acquire"
    /\ AwaitAcquire
    /\ Goto("sp_get")
    /\ UNCHANGED <<started, context_cookies, sessions, session_manager, current_zipcode, args,
                   navigations, interactions, saves, before, caller, governor>>

\* line 161
search_products_get ==
    /\ step = "sp_get"
    /\ DriverGet("search_products", "sp_extract")
    /\ UNCHANGED <<started, context_cookies, sessions, session_manager, current_zipcode, args,
                   completed, interactions, saves, backoff_used, before, caller,
                   governor>>

\* lines 164-183: the links of the page, or an exception on the way
search_products_extract ==
    /\ step = "sp_extract"
    /\ \/ \E urls \in UrlLists[args.max_results] :
             Returns("search_products", urls, "none")
       \/ Except("search_products", "extraction")
    /\ UNCHANGED <<started, context_cookies, sessions, session_manager, current_zipcode, args,
                   navigations, completed, interactions, saves, signal, backoff_used,
                   before, caller, governor>>

\* ----------------------------------------------- get_product_details
\* get_product_details(product_url) is called, for entry `index` of a batch
get_product_details(url, index) ==
    /\ step = "idle"
    /\ step' = "gd_acquire"
    /\ args' = [NoArgs EXCEPT !.url = url, !.index = index]
    /\ result' = NoResult
    /\ before' = [zipcode |-> current_zipcode, lookup |-> "none", saves |-> saves,
                  navigations |-> navigations]
    /\ interactions' = {}
    /\ UNCHANGED <<started, context_cookies, sessions, session_manager, current_zipcode, navigations,
                   completed, saves, signal, backoff_used, fetched,
                   governor>>

\* lines 203-204
get_product_details_acquire ==
    /\ step = "gd_acquire"
    /\ AwaitAcquire
    /\ Goto("gd_get")
    /\ UNCHANGED <<started, context_cookies, sessions, session_manager, current_zipcode, args,
                   navigations, interactions, saves, before, caller, governor>>

\* line 207
get_product_details_get ==
    /\ step = "gd_get"
    /\ DriverGet("get_product_details", "gd_parse")
    /\ UNCHANGED <<started, context_cookies, sessions, session_manager, current_zipcode, args,
                   completed, interactions, saves, backoff_used, before, caller,
                   governor>>

\* what a product page holds: a product, no product name, or a rating
\* count that makes parse_product raise (and return None)
TV == <<"T", "V">>
Only3 == <<"O", "n", "l", "y", " ", "3", " ", "l", "e", "f", "t">>
ProductPage ==
    Page(TV, <<"$", "5">>, <<"$", "1", "0", ".", "5", "0">>, Only3,
         <<"4", ".", "5">>, <<"(", "1", "2", ")">>)
ProductPages ==
    {ProductPage, [ProductPage EXCEPT !.name = <<>>],
     [ProductPage EXCEPT !.rating_count = <<Nines>>]}

\* lines 211-221: the content of the page is parsed, or page.content() raises
get_product_details_parse ==
    /\ step = "gd_parse"
    /\ \/ \E page \in ProductPages :
             LET product == parse_product(page, args.url)
             IN  Returns("get_product_details", product,
                         IF product # NoProduct THEN "none"
                         ELSE IF page.name = <<>> THEN "no_name" ELSE "error")
       \/ Except("get_product_details", "driver")
    /\ UNCHANGED <<started, context_cookies, sessions, session_manager, current_zipcode, args,
                   navigations, completed, interactions, saves, signal, backoff_used,
                   before, caller, governor>>

\* a step of the scraper operation that runs
OperationStep ==
    \/ set_location_acquire
    \/ set_location_session
    \/ set_location_get
    \/ set_location_button
    \/ set_location_input
    \/ set_location_submit
    \/ set_location_save
    \/ search_products_acquire
    \/ search_products_get
    \/ search_products_extract
    \/ get_product_details_acquire
    \/ get_product_details_get
    \/ get_product_details_parse

\* --------------------------------------------------------- scrape_site
\* the position of the caller: where it is, and the number of product URLs
\* its loop has dealt with
At(where) == [at |-> where, i |-> 0]

\* an exception has left the operation the caller awaited
Raised == result.err # "none"

\* scrape_site with browser.start() before its try: a failure of start leaves
\* the run at once
scrape_site_start_outside ==
    /\ main = At("start")
    /\ \E ok \in BOOLEAN :
          /\ started' = ok
          /\ main' = IF ok THEN At("started") ELSE At("return")
    /\ UNCHANGED <<context_cookies, sessions, session_manager, current_zipcode, step, args, result,
                   product_urls, products, calls, history, governor>>

\* line 101: browser.start(), which may raise
scrape_site_start ==
    /\ main = At("start")
    /\ \E ok \in BOOLEAN :
          /\ started' = ok
          /\ main' = IF ok THEN At("started") ELSE At("except")
    /\ UNCHANGED <<context_cookies, sessions, session_manager, current_zipcode, step, args, result,
                   product_urls, products, calls, history, governor>>

\* line 105
scrape_site_set_location ==
    /\ main = At("started")
    /\ \E z \in Zipcodes : set_location(z)
    /\ main' = At("set_location")
    /\ UNCHANGED <<product_urls, products, calls>>

\* scrape_site that goes on to search whatever set_location returned
scrape_site_search_products_unchecked ==
    /\ main = At("set_location")
    /\ step = "idle"
    /\ IF Raised
       THEN /\ main' = At("except")
            /\ UNCHANGED <<scraper, history>>
       ELSE /\ main' = At("search_products")
            /\ \E m \in 0..MaxResults : search_products(m)
    /\ UNCHANGED <<product_urls, products, calls, governor>>

\* lines 106-111: set_location has returned
scrape_site_search_products ==
    /\ main = At("set_location")
    /\ step = "idle"
    /\ IF Raised
       THEN /\ main' = At("except")
            /\ UNCHANGED <<scraper, history>>
       ELSE IF ~result.val
            THEN /\ main' = At("finally")
                 /\ UNCHANGED <<scraper, history>>
            ELSE /\ main' = At("search_products")
                 /\ \E m \in 0..MaxResults : search_products(m)
    /\ UNCHANGED <<product_urls, products, calls, governor>>

\* lines 111-115: search_products has returned, the loop begins
scrape_site_product_urls ==
    /\ main = At("search_products")
    /\ step = "idle"
    /\ IF Raised
       THEN /\ main' = At("except")
            /\ UNCHANGED product_urls
       ELSE /\ main' = At("for")
            /\ product_urls' = result.val
    /\ UNCHANGED <<scraper, products, calls, history, governor>>

\* lines 115-117, 121: the next URL of the loop, or the end of it
scrape_site_get_product_details ==
    /\ main.at = "for"
    /\ IF main.i < Len(product_urls)
       THEN /\ main' = [at |-> "get_product_details", i |-> main.i]
            /\ get_product_details(product_urls[main.i + 1], main.i + 1)
       ELSE /\ main' = At("finally")
            /\ UNCHANGED <<scraper, history>>
    /\ UNCHANGED <<product_urls, products, calls, governor>>

\* the loop that puts each product in front of the others
Collected(product) == <<product>> \o products

\* line 119: products.append(product)
Appended(product) == Append(products, product)

\* lines 118-119: get_product_details has returned
scrape_site_append ==
    /\ main.at = "get_product_details"
    /\ step = "idle"
    /\ IF Raised
       THEN /\ main' = At("except")
            /\ UNCHANGED products
       ELSE /\ main' = [at |-> "for", i |-> main.i + 1]
            /\ products' = IF result.val # NoProduct THEN Appended(result.val) ELSE products
    /\ UNCHANGED <<scraper, product_urls, calls, history, governor>>

\* lines 123-124
scrape_site_except ==
    /\ main = At("except")
    /\ main' = At("finally")
    /\ UNCHANGED <<scraper, product_urls, products, calls, history, governor>>

\* lines 126-131: browser.close(), and the products are returned
scrape_site_finally ==
    /\ main = At("finally")
    /\ started' = FALSE
    /\ main' = At("return")
    /\ UNCHANGED <<context_cookies, sessions, session_manager, current_zipcode, step, args, result,
                   product_urls, products, calls, history, governor>>

\* a scrape run: scrape_site with its configured RateLimiter, over the session
\* files it finds
RunInit ==
    /\ RateLimiterInit
    /\ requests_per_minute <= 1
    /\ \E files \in SessionFiles : ScraperInit(files)
    /\ session_manager = TRUE

RunNext ==
    \/ scrape_site_start
    \/ scrape_site_set_location
    \/ scrape_site_search_products
    \/ scrape_site_product_urls
    \/ scrape_site_get_product_details
    \/ scrape_site_append
    \/ scrape_site_except
    \/ scrape_site_finally
    \/ OperationStep

RunSpec == RunInit /\ [][RunNext]_vars

\* a scrape run in which every await that can return does: the event loop
\* resumes scrape_site, and the driver calls end by themselves or by their
\* timeouts
RunLiveSpec == RunInit /\ [][RunNext]_vars /\ WF_vars(RunNext)

\* -------------------------------------------------------------- client
\* a client of the scraper and of its browser driver, which calls their
\* operations one after the other in any order
Ready ==
    /\ step = "idle"
    /\ calls < MaxCalls
    /\ calls' = calls + 1
    /\ UNCHANGED <<main, product_urls, products>>

\* BrowserDriver.start, which may raise on the way
client_start ==
    /\ step = "idle"
    /\ ~started
    /\ \E ok \in BOOLEAN : started' = ok
    /\ UNCHANGED <<context_cookies, sessions, session_manager, current_zipcode, step, args, result,
                   caller, history, governor>>

\* BrowserDriver.close
client_close ==
    /\ step = "idle"
    /\ started
    /\ started' = FALSE
    /\ context_cookies' = {}
    /\ UNCHANGED <<sessions, session_manager, current_zipcode, step, args, result, caller, history,
                   governor>>

client_set_location == Ready /\ \E z \in Zipcodes : set_location(z)

client_search_products == Ready /\ \E m \in 0..MaxResults : search_products(m)

client_get_product_details == Ready /\ \E url \in ProductLinks : get_product_details(url, 1)

ClientNext ==
    \/ client_start
    \/ client_close
    \/ client_set_location
    \/ client_search_products
    \/ client_get_product_details
    \/ OperationStep

\* a client builds the scraper with a SessionManager or without one
ClientInit ==
    /\ RateLimiterInit
    /\ requests_per_minute <= 1
    /\ \E files \in SessionFiles : ScraperInit(files)
    /\ session_manager \in IF sessions = Empty THEN BOOLEAN ELSE {TRUE}

ClientSpec == ClientInit /\ [][ClientNext]_vars

\* --------------------------------------------- clients of the store
\* A client of a SessionManager calls its operations, at most MaxCalls of them,
\* on the keys StoreSites x StoreZipcodes, at the times StoreTimes.  Each
\* operation runs without suspension, so each is one step; `args` holds the
\* call and `result` what it returned.
StoreSites == {"walmart", "walmart_us"}
StoreZipcodes == {"90210", "us_90210"}
StoreTimes == {0, max_age - 1, max_age}

\* the session files the client may find when it starts
StoreFiles ==
    UNION {[P -> SessionRecords] :
             P \in {F \in SUBSET {get_session_path(s, z) : s \in StoreSites, z \in StoreZipcodes} :
                      Cardinality(F) <= MaxFiles}}

StoreArgs(s, z, cookies, session) ==
    [site |-> s, zipcode |-> z, cookies |-> cookies, session |-> session, at |-> now]

\* what the store operations leave alone
unstored == <<started, context_cookies, session_manager, current_zipcode, step, main,
              product_urls, products, history>>

\* time passes between two operations
Elapse ==
    /\ \E t \in StoreTimes : t > now /\ now' = t
    /\ UNCHANGED <<requests_per_minute, limiter, locals, ret, admits, gap, budget,
                   workflow>>

store_save_session ==
    \E s \in StoreSites, z \in StoreZipcodes, cookies \in CookieLists,
       outcome \in WriteOutcomes :
        /\ calls < MaxCalls
        /\ calls' = calls + 1
        /\ sessions' = save_session(s, z, cookies, outcome)
        /\ args' = StoreArgs(s, z, cookies, NoSession.session)
        /\ result' = [op |-> "save_session", val |-> NoSession, err |-> "none",
                      why |-> outcome]
        /\ UNCHANGED <<unstored, governor>>

store_load_session ==
    \E s \in StoreSites, z \in StoreZipcodes :
        /\ calls < MaxCalls
        /\ calls' = calls + 1
        /\ sessions' = Loaded(s, z)
        /\ args' = StoreArgs(s, z, <<>>, NoSession.session)
        /\ result' = [op |-> "load_session", val |-> load_session(s, z),
                      err |-> "none", why |-> NoneBecause(s, z)]
        /\ UNCHANGED <<unstored, governor>>

store_delete_session ==
    \E s \in StoreSites, z \in StoreZipcodes :
        /\ calls < MaxCalls
        /\ calls' = calls + 1
        /\ sessions' = delete_session(s, z)
        /\ args' = StoreArgs(s, z, <<>>, NoSession.session)
        /\ result' = [op |-> "delete_session",
                      val |-> [found |-> get_session_path(s, z) \in DOMAIN sessions,
                               session |-> NoSession.session],
                      err |-> "none", why |-> "none"]
        /\ UNCHANGED <<unstored, governor>>

store_is_session_valid ==
    \E session \in SessionRecords \ {Session(<<>>, 0, "truncated")} :
        /\ calls < MaxCalls
        /\ calls' = calls + 1
        /\ args' = StoreArgs("", "", <<>>, session)
        /\ result' = [op |-> "is_session_valid",
                      val |-> [found |-> is_session_valid(session), session |-> session],
                      err |-> "none", why |-> "none"]
        /\ UNCHANGED <<sessions, unstored, governor>>

StoreInit ==
    /\ RateLimiterInit
    /\ requests_per_minute = 0
    /\ \E files \in StoreFiles : ScraperInit(files)
    /\ session_manager = TRUE

StoreNext ==
    \/ Elapse
    \/ store_save_session
    \/ store_load_session
    \/ store_delete_session
    \/ store_is_session_valid

StoreSpec == StoreInit /\ [][StoreNext]_vars

\* ------------------------------------------- a client of the parsers
\* parse_product, Product.validate and ScrapeResult called on their own: the
\* call and its inputs are drawn when the client starts.
ParseArgs(op, page, url, product, product_list) ==
    [op |-> op, page |-> page, url |-> url, product |-> product,
     products |-> product_list]

\* the texts select_one gives for the fields of the product pages parsed
Free == <<"$", "0", ".", "0", "0">>
OnlyNines == <<"O", "n", "l", "y", " ", Nines, " ", "l", "e", "f", "t">>
ParsePages ==
    {Page(name, current_price, original_price, stock_status, rating_avg, rating_count) :
        name \in {<<>>, TV},
        current_price \in {<<>>, Free, ProductPage.current_price},
        original_price \in {<<>>, Free, ProductPage.current_price,
                            ProductPage.original_price},
        stock_status \in {<<>>, Only3, OnlyNines},
        rating_avg \in {<<>>, ProductPage.rating_avg, <<"7">>},
        rating_count \in {<<>>, ProductPage.rating_count, <<Nines>>}}

\* discount_percent None
NoDiscount == [some |-> FALSE, num |-> 0, den |-> 1]

\* the products validated: each field empty or not, absent, below, at and
\* above its bounds
Amounts == {None, Some(0 - 1), Some(0)}
ValidateProducts ==
    {Product(name, url, product_site, zipcode, current_price, original_price,
             NoDiscount, quantity_available, rating_avg, rating_count) :
        name \in {<<>>, TV}, url \in {NoHref, Absolute(NoHref)},
        product_site \in {"", "walmart"}, zipcode \in {"", "90210"},
        current_price \in Amounts, original_price \in Amounts,
        quantity_available \in Amounts,
        rating_avg \in Amounts \cup {Some(5 * 100), Some(5 * 100 + 1)},
        rating_count \in Amounts}

\* the products a ScrapeResult is made with and those appended to it
ResultProducts ==
    {Product(TV, link, "walmart", "90210", None, None, NoDiscount, None, None, None) :
        link \in ProductLinks}
ProductLists == UNION {[1..n -> ResultProducts] : n \in 0..MaxResults}

\* what the selectors of select_one match: one candidate, or a candidate and
\* a fallback, with texts and attribute values empty, blank or not
SelectTexts == {<<>>, <<" ">>, <<" ", "a">>}
Candidates ==
    {Candidate(TRUE, FALSE, <<>>, <<>>), Candidate(FALSE, FALSE, <<>>, <<>>)}
        \cup {Candidate(FALSE, TRUE, text, value) : text \in SelectTexts, value \in SelectTexts}
CandidateLists ==
    {<<first>> : first \in Candidates}
        \cup {<<first, fallback>> : first \in Candidates, fallback \in Candidates}

\* what the selectors of select_many match, an exception among the elements
\* or not, and its limit
MatchLists ==
    LET Matches == SeqsUpTo(Elements \cup {Broken}, MaxLinks)
    IN  {<<first>> : first \in Matches}
          \cup {<<first, fallback>> : first \in Matches, fallback \in Matches}
Limits == {None} \cup {Some(limit) : limit \in 0..MaxResults}

\* the status texts classified
OutOfStock == <<"O", "u", "t", " ", "o", "f", " ", "S", "t", "o", "c", "k">>
SoldOutOnly == <<"S", "O", "L", "D", " ", "O", "U", "T", ",", " ", "o", "n", "l", "y", " ", "2">>
Unavailable == <<"U", "n", "a", "v", "a", "i", "l", "a", "b", "l", "e">>
Limited == <<"L", "i", "m", "i", "t", "e", "d">>
Limited5Of9 == <<"L", "I", "M", "I", "T", "E", "D", ":", " ", "5", " ", "o", "f", " ", "9">>
ShipsToday == <<"S", "h", "i", "p", "s", " ", "t", "o", "d", "a", "y">>
StatusTexts ==
    {<<>>, OutOfStock, SoldOutOnly, Unavailable, Limited, Limited5Of9, Only3, OnlyNines,
     ShipsToday}

\* the price texts normalized: no price, a price, a range of two prices in
\* either order, a negative price; `amounts` are the amounts written in it
Prices ==
    {[text |-> <<"$", "5">>, amount |-> 5 * 100],
     [text |-> <<"$", "1", "0", ".", "5", "0">>, amount |-> 10 * 100 + 50],
     [text |-> <<"$", "1", ",", "2", "9", "9", ".", "0", "0">>, amount |-> 1299 * 100]}
PriceTexts ==
    {[price_str |-> text, amounts |-> <<>>] :
        text \in {<<>>, <<"N", "/", "A">>, <<"-", "5">>, <<"$", "-", "5", ".", "0", "0">>}}
      \cup {[price_str |-> price.text, amounts |-> <<price.amount>>] : price \in Prices}
      \cup {[price_str |-> low.text \o <<" ", "-", " ">> \o high.text,
              amounts |-> <<low.amount, high.amount>>] : low \in Prices, high \in Prices}

ParseInit ==
    /\ RateLimiterInit
    /\ requests_per_minute = 0
    /\ started = FALSE
    /\ context_cookies = {}
    /\ sessions = Empty
    /\ session_manager = TRUE
    /\ current_zipcode \in {"None", "90210"}
    /\ step = "idle"
    /\ \/ \E page \in ParsePages, url \in ProductLinks :
            args = ParseArgs("parse_product", page, url, NoProduct, <<>>)
       \/ \E product \in ValidateProducts :
            args = ParseArgs("validate", ProductPage, NoHref, product, <<>>)
       \/ \E product_list \in ProductLists :
            args = ParseArgs("ScrapeResult", ProductPage, NoHref, NoProduct, product_list)
       \/ \E status_text \in StatusTexts :
            args = [op |-> "parse_availability", status_text |-> status_text]
       \/ \E price \in PriceTexts :
            args = [op |-> "normalize_price", price_str |-> price.price_str,
                    amounts |-> price.amounts]
       \/ \E candidates \in CandidateLists, attr \in BOOLEAN :
            args = [op |-> "select_one", selectors |-> candidates, attr |-> attr]
       \/ \E matches \in MatchLists, limit \in Limits :
            args = [op |-> "select_many", selectors |-> matches, limit |-> limit]
    /\ result = NoResult
    /\ main = [at |-> "start", i |-> 0]
    /\ product_urls = <<>>
    /\ products = <<>>
    /\ calls = 0
    /\ navigations = 0
    /\ completed = 0
    /\ interactions = {}
    /\ saves = 0
    /\ signal = "none"
    /\ backoff_used = Unit
    /\ fetched = <<>>
    /\ before = NoBefore

\* what the parser calls leave alone
unparsed == <<governor, started, context_cookies, sessions, session_manager,
              current_zipcode, step, args, caller, history>>

\* parse_product(html, url) on the page drawn
call_parse_product ==
    /\ args.op = "parse_product" /\ result = NoResult
    /\ result' = [op |-> "parse_product", val |-> parse_product(args.page, args.url),
                  err |-> "none", why |-> "none"]
    /\ UNCHANGED unparsed

\* product.validate() on the product drawn
call_validate ==
    /\ args.op = "validate" /\ result = NoResult
    /\ result' = [op |-> "validate", val |-> validate(args.product),
                  err |-> "none", why |-> "none"]
    /\ UNCHANGED unparsed

\* ScrapeResult(site, zipcode, products=...): __post_init__ counts the products
ScrapeResult_post_init ==
    /\ args.op = "ScrapeResult" /\ result = NoResult
    /\ result' = [op |-> "ScrapeResult",
                  val |-> [products |-> args.products,
                           products_found |-> Len(args.products)],
                  err |-> "none", why |-> "none"]
    /\ UNCHANGED unparsed

\* result.products.append(product), on the list the dataclass exposes
products_append ==
    /\ result.op = "ScrapeResult" /\ Len(result.val.products) <= MaxResults
    /\ \E product \in ResultProducts :
          result' = [result EXCEPT !.val.products = Append(@, product)]
    /\ UNCHANGED unparsed

\* engine.select_one(selectors, attr) on the candidates drawn
call_select_one ==
    /\ args.op = "select_one" /\ result = NoResult
    /\ result' = [op |-> "select_one", val |-> select_one(args.selectors, args.attr),
                  err |-> "none", why |-> "none"]
    /\ UNCHANGED unparsed

\* engine.select_many(selectors, attr, limit) on the matches drawn; `if limit`
\* is false for None and for 0
call_select_many ==
    /\ args.op = "select_many" /\ result = NoResult
    /\ result' = [op |-> "select_many",
                  val |-> select_many(args.selectors,
                                      IF args.limit.some THEN args.limit.amount ELSE 0),
                  err |-> "none", why |-> "none"]
    /\ UNCHANGED unparsed

\* parse_availability(status_text) on the text drawn
call_parse_availability ==
    /\ args.op = "parse_availability" /\ result = NoResult
    /\ LET availability == parse_availability(args.status_text)
       IN  result' = [op |-> "parse_availability", val |-> availability,
                      err |-> IF availability.raises THEN "ValueError" ELSE "none",
                      why |-> "none"]
    /\ UNCHANGED unparsed

\* normalize_price(price_str) on the text drawn
call_normalize_price ==
    /\ args.op = "normalize_price" /\ result = NoResult
    /\ result' = [op |-> "normalize_price", val |-> normalize_price(args.price_str),
                  err |-> "none", why |-> "none"]
    /\ UNCHANGED unparsed

ParseNext ==
    \/ call_parse_availability
    \/ call_normalize_price
    \/ call_select_one
    \/ call_select_many
    \/ call_parse_product
    \/ call_validate
    \/ ScrapeResult_post_init
    \/ products_append

ParseSpec == ParseInit /\ [][ParseNext]_vars

\* ------------------------------------------------------------ claims
Site == "walmart"

\* C1: the token count of every site stays within [0, capacity], capacity
\* being requests_per_minute, whatever the sequence of acquire, is_rate_limited
\* and get_wait_time calls and the time between them.
C1_TokensWithinCapacity ==
    \A s \in DOMAIN tokens : 0 <= tokens[s] /\ tokens[s] <= Capacity

\* the bucket was emptied by an acquire and looked at by an introspection call
C1_Witness ==
    /\ Site \in DOMAIN tokens
    /\ tokens[Site] = 0
    /\ requests_per_minute = 1
    /\ Len(admits[Site]) = 1
    /\ queries > 0
    /\ now > admits[Site][1]

\* C2: with one sequential caller, an acquire returns no earlier than
\* min_delay x backoff after the previous acquire for the site returned, the
\* backoff being the multiplier the later call read.
C2_SequentialSpacing == \A s \in Sites : gap[s] # "close"

\* a second acquire has returned, 2 x max_delay or more after it consumed its
\* token: it slept under a raised backoff multiplier
C2_Witness ==
    /\ gap[Site] = "spaced"
    /\ Len(admits[Site]) >= 2
    /\ last_request_time[Site] - admits[Site][Len(admits[Site])] >= 2 * max_delay
    /\ Idle

\* C3: in every window of 60 seconds a site has at most requests_per_minute
\* admissions: any requests_per_minute + 1 admissions span 60 seconds or more.
C3_AtMostRpmPerMinute ==
    \A s \in Sites :
        \A i, j \in DOMAIN admits[s] :
            (i <= j /\ admits[s][j] - admits[s][i] < SecondsPerMinute)
                => j - i + 1 <= requests_per_minute

\* C4: with concurrent callers of acquire for one site, the completions are
\* still spaced by min_delay x backoff.
C4_ConcurrentSpacing == \A s \in Sites : gap[s] \in {"none", "first", "spaced"}

\* C5: with concurrent callers of acquire for one site, every admission
\* consumes a token of its own: the count never goes below zero, and the
\* tokens consumed and left never exceed the initial bucket plus the refill.
C5_TokensConserved ==
    \A s \in DOMAIN tokens :
        /\ tokens[s] >= 0
        /\ Len(admits[s]) * OneToken + tokens[s]
             <= Capacity + last_refill[s] * requests_per_minute

\* two workers polled for the one token of the bucket: b has just got it, a is
\* still polling
C5_Witness ==
    /\ requests_per_minute = 1
    /\ acquires = 3
    /\ Len(admits[Site]) = 2
    /\ now = admits[Site][2]
    /\ pc["a"] = "poll"
    /\ pc["b"] = "idle"
    /\ tokens[Site] < OneToken

\* C6: a trigger_backoff call never lowers the multiplier of a site and never
\* leaves it above 10.0; reset_backoff leaves it at exactly 1.0.
C6_BackoffMonotone ==
    [][/\ triggers' # triggers =>
            \A s \in Sites :
                /\ Get(backoff_multiplier', s, Unit) >= Get(backoff_multiplier, s, Unit)
                /\ Get(backoff_multiplier', s, Unit) <= BackoffCap * Unit
       /\ \A s \in Sites : reset_backoff(s) => backoff_multiplier'[s] = Unit]_vars

\* C7: the backoff multiplier of every site lies in [1.0, 10.0].
C7_BackoffInRange ==
    \A s \in DOMAIN backoff_multiplier :
        Unit <= backoff_multiplier[s] /\ backoff_multiplier[s] <= BackoffCap * Unit

\* C8: with requests_per_minute >= 1, every acquire returns.
C8_AcquireReturns ==
    (requests_per_minute >= 1 /\ pc["a"] # "idle") ~> (pc["a"] = "idle")

\* an acquire that had to poll for its token has returned
C8_Witness ==
    /\ requests_per_minute = 1
    /\ Len(admits[Site]) = 2
    /\ gap[Site] = "spaced"
    /\ Idle

\* the token count site s has once _refill_tokens has run at the present time
EffectiveTokens(s) == RefilledTokens(s)

\* C9 as stated: an introspection call leaves the state of every site as it is.
C9_IntrospectionReadOnly == [][queries' # queries => UNCHANGED limiter]_vars

\* C9 amended: an introspection call leaves the backoff multiplier and the
\* last-request time of every site as they are, and the token count the site
\* has after a refill at the present time; get_current_rate and
\* get_backoff_multiplier change nothing at all.
C9_IntrospectionRefillsOnly ==
    [][queries' # queries =>
         /\ UNCHANGED <<backoff_multiplier, last_request_time>>
         /\ \A s \in Sites : EffectiveTokens(s)' = EffectiveTokens(s)
         /\ ret'.op \in {"get_current_rate", "get_backoff_multiplier"}
                => UNCHANGED limiter]_vars

\* an introspection call has refilled a bucket that an acquire had drawn from
C9_Witness ==
    /\ ret.op \in {"is_rate_limited", "get_wait_time"}
    /\ Len(admits[Site]) >= 1
    /\ last_refill[Site] = now
    /\ last_refill[Site] > admits[Site][Len(admits[Site])]
    /\ tokens[Site] < Capacity

\* C10: no operation ends in an error.
C10_NoError == ret.err = "none"

\* C11: when a navigation of the workflow met a rate-limit response (HTTP 429
\* or 503), the next acquire for the site runs under a backoff multiplier
\* above 1.0: the workflow has called trigger_backoff in between.
C11_BackoffAfterSignal == signal = "acquired" => backoff_used > Unit


\* C12: every navigation of the workflow comes after a completed acquire of
\* the same operation: at every point of a run the navigations issued are at
\* most the acquires completed, and an operation about to navigate has
\* completed an acquire that no navigation has used.
C12_AcquireBeforeNavigation ==
    /\ navigations <= completed
    /\ step \in {"sl_get", "sp_get", "gd_get"} => navigations < completed

\* a run has navigated to the site root, to the search page and to a product
\* page, each time after an acquire
C12_Witness ==
    /\ main.at = "get_product_details"
    /\ step = "gd_parse"
    /\ navigations = 3
    /\ completed = 3


\* C13: when set_location finds a valid session for its zipcode, whatever the
\* cookie list of it, it takes the fast path: it does not go on to navigate,
\* click or fill, and, unless the driver fails to install the cookies, it
\* returns True with current_zipcode the zipcode.
C13_ValidSessionFastPath ==
    (before.lookup = "valid" /\ started) =>
        /\ step \notin {"sl_get", "sl_button", "sl_input", "sl_submit", "sl_save"}
        /\ interactions = {}
        /\ (step = "idle" /\ result.why # "driver") =>
               (result.val = TRUE /\ current_zipcode = args.zipcode)


\* the stages of the location modal up to a stage, in the order of set_location
StagesUpTo(stage) ==
    IF stage = "location_button" THEN {"location_button"}
    ELSE IF stage = "zipcode_input" THEN {"location_button", "zipcode_input"}
    ELSE {"location_button", "zipcode_input", "submit_button"}

\* C14: once a stage of the location modal has exhausted its selectors,
\* set_location has returned False: no later stage has been attempted, no
\* session has been saved and current_zipcode is what it was at the call.
C14_StageFailureIsHard ==
    \A e \in interactions :
        ~e.done =>
            /\ step = "idle"
            /\ result.op = "set_location"
            /\ result.val = FALSE
            /\ {i.stage : i \in interactions} = StagesUpTo(e.stage)
            /\ saves = before.saves
            /\ current_zipcode = before.zipcode

\* after a set_location that succeeded for one zipcode, a set_location for
\* another has failed at the zipcode input
C14_Witness ==
    /\ step = "idle"
    /\ result.op = "set_location"
    /\ result.why = "zipcode_input"
    /\ \E e \in interactions : e.stage = "zipcode_input" /\ ~e.done
    /\ before.zipcode = "90210"
    /\ args.zipcode = "10001"
    /\ saves = 1


\* C15: current_zipcode changes only in the step in which a set_location call
\* returns True, and every such step leaves it at the zipcode of the call; the
\* steps of search_products and get_product_details (parse_product among
\* them) and a set_location that fails leave it as it is.
C15_ZipcodeOnlyOnSuccess ==
    [][/\ current_zipcode' # current_zipcode =>
            /\ step \in {"sl_session", "sl_save"}
            /\ step' = "idle"
            /\ result'.op = "set_location"
            /\ result'.val = TRUE
       /\ (step # "idle" /\ step' = "idle" /\ result'.op = "set_location") =>
            current_zipcode' = IF result'.val THEN args.zipcode ELSE current_zipcode
       /\ step \in {"sp_acquire", "sp_get", "sp_extract", "gd_acquire", "gd_get", "gd_parse"}
            => current_zipcode' = current_zipcode]_vars

\* a set_location for one zipcode has succeeded after one for another had
C15_Witness ==
    /\ step = "idle"
    /\ result.op = "set_location"
    /\ result.val = TRUE
    /\ before.zipcode = "90210"
    /\ current_zipcode = "10001"


\* the record that get_product_details gives for a URL whose page parses
RecordOf(url) == parse_product(ProductPage, url)

\* C16: a failure of get_product_details for one URL of the batch gives an
\* absent record for it and nothing else: the run calls get_product_details
\* once for every discovered URL, in order, whatever the earlier calls gave,
\* and the record of every URL that did not fail is among the products.
C16_FailureIsolated ==
    /\ Len(fetched) <= Len(product_urls)
    /\ \A k \in DOMAIN fetched :
          /\ fetched[k].index = k
          /\ fetched[k].url = product_urls[k]
          /\ (fetched[k].outcome = "record" /\ main.at \in {"for", "finally", "return"})
                => \E j \in DOMAIN products : products[j] = RecordOf(product_urls[k])
    /\ (main.at = "return" /\ product_urls # <<>>) => Len(fetched) = Len(product_urls)

\* a run has ended in which the first of two URLs failed and the second gave
\* its record
C16_Witness ==
    /\ main.at = "return"
    /\ Len(product_urls) = 2
    /\ Len(fetched) = 2
    /\ fetched[1].outcome = "absent"
    /\ fetched[2].outcome = "record"
    /\ products = <<RecordOf(product_urls[2])>>


\* the calls of the batch that gave a record, in the order of the calls
IsRecord(f) == f.outcome = "record"
Kept == SelectSeq(fetched, IsRecord)

\* C17: the records of a run are in the order of discovery: between two
\* iterations of the loop and at the end of the run, the URLs of the products
\* are the URLs of product_urls whose call gave a record, in the order of
\* product_urls, one record each.
C17_DiscoveryOrder ==
    main.at \in {"for", "finally", "return"} =>
        /\ \A k \in DOMAIN fetched : fetched[k].url = product_urls[k]
        /\ Len(products) = Len(Kept)
        /\ \A j \in DOMAIN products : products[j] = RecordOf(Kept[j].url)

\* a run has ended with the records of two different URLs
C17_Witness ==
    /\ main.at = "return"
    /\ Len(product_urls) = 2
    /\ product_urls[1] # product_urls[2]
    /\ Len(products) = 2
    /\ products[1].url = product_urls[1]
    /\ products[2].url = product_urls[2]


\* C18: search_products returns at most max_results URLs for every
\* max_results >= 0 (none for 0), and when its acquire, its navigation or the
\* extraction fails it returns an empty list and raises nothing.
C18_AtMostMaxResults ==
    (step = "idle" /\ result.op = "search_products") =>
        /\ result.err = "none"
        /\ Len(result.val) <= args.max_results
        /\ result.why # "none" => result.val = <<>>

\* search_products(query, 0) has navigated and extracted, and returned no URL
C18_Witness ==
    /\ step = "idle"
    /\ result.op = "search_products"
    /\ result.why = "none"
    /\ args.max_results = 0
    /\ result.val = <<>>
    /\ navigations >= 1


\* C19: no exception leaves set_location, search_products or
\* get_product_details: an operation in which something failed has returned
\* False, an empty list or no product, and the caller goes on.
C19_NoRaise ==
    /\ result.err = "none"
    /\ (step = "idle" /\ result.op # "none" /\ result.why # "none")
          => result.val = Default(result.op)

\* the navigation of a get_product_details has timed out on a started driver
C19_Witness ==
    /\ step = "idle"
    /\ started
    /\ result.op = "get_product_details"
    /\ result.why = "driver"
    /\ result.val = NoProduct
    /\ navigations >= 1


\* C20: an operation that met a browser driver that is not started (or is
\* closed) ends in a 'driver not ready' condition of its own, which its caller
\* can tell from the False, empty list or absent product of an ordinary failure.
C20_DriverNotReadyDistinct ==
    (step = "idle" /\ result.why = "not_started") =>
        /\ result.err # "none"
        /\ result.val # Default(result.op)


\* the record stored for the key (site, zipcode): whether its file is there,
\* and what it holds
Stored(s, z) ==
    IF get_session_path(s, z) \in DOMAIN sessions
    THEN [found |-> TRUE, session |-> sessions[get_session_path(s, z)]]
    ELSE NoSession

\* C21 as stated: after save_session(site, zipcode, cookies), as long as less
\* than max_age has passed, load_session(site, zipcode) returns a session
\* with these cookies.
C21_SaveThenLoad ==
    (result.op = "save_session" /\ now - args.at < max_age)
        => /\ load_session(args.site, args.zipcode).found
           /\ load_session(args.site, args.zipcode).session.cookies = args.cookies

\* C21: after a save_session(site, zipcode, cookies) whose write succeeded, as
\* long as less than max_age has passed, load_session(site, zipcode) returns
\* a session with these cookies, and the file of the key holds this session and
\* nothing of what it held before.
C21_WrittenSaveThenLoad ==
    (result.op = "save_session" /\ result.why = "written" /\ now - args.at < max_age)
        => /\ load_session(args.site, args.zipcode).found
           /\ load_session(args.site, args.zipcode).session.cookies = args.cookies
           /\ Stored(args.site, args.zipcode).session
                = Session(args.cookies, args.at, "iso")

C21_Witness ==
    /\ result.op = "save_session"
    /\ result.why = "written"
    /\ calls = 2
    /\ args.cookies = <<"locDataV3">>
    /\ args.at = 0
    /\ now = max_age - 1
    /\ load_session(args.site, args.zipcode).session.cookies = <<"locDataV3">>


\* C22: load_session never returns an expired session.  When the file of the
\* key holds a session whose created_at is max_age or more ago, load_session
\* returns None and removes the file, so that a second load finds no file;
\* when it holds a session younger than max_age, load_session returns this
\* session and leaves the files as they are.
C22_LoadDropsExpired ==
    [][(result'.op = "load_session" /\ calls' = calls + 1) =>
         LET held == Stored(args'.site, args'.zipcode)
             age == now - held.session.created_at
         IN  /\ (held.found /\ held.session.form = "iso" /\ age >= max_age)
                  => /\ ~result'.val.found
                     /\ get_session_path(args'.site, args'.zipcode) \notin DOMAIN sessions'
             /\ (held.found /\ held.session.form = "iso" /\ age < max_age)
                  => /\ result'.val = held
                     /\ sessions' = sessions
             /\ result'.val.found
                  => /\ result'.val.session.form = "iso"
                     /\ now - result'.val.session.created_at < max_age]_vars

\* a load at time max_age of a key that a save at time 0 wrote: it returned
\* None for an invalid session, and the file is gone
C22_Witness ==
    /\ result.op = "load_session"
    /\ result.why = "invalid"
    /\ ~result.val.found
    /\ args.at = max_age
    /\ calls = 2
    /\ sessions = Empty


\* C23: is_session_valid(session) returns True exactly when the session has a
\* created_at that parses and now - created_at < max_age: a session of age
\* max_age is not valid, and neither is one without created_at or with one
\* that does not parse.
C23_ValidIffYoung ==
    result.op = "is_session_valid" =>
        LET session == args.session
            age == args.at - session.created_at
        IN  /\ result.val.found = (session.form = "iso" /\ age < max_age)
            /\ (session.form = "iso" /\ age = max_age) => ~result.val.found
            /\ session.form \in {"missing", "garbled"} => ~result.val.found

\* is_session_valid has returned False for a session of age max_age, and True
\* for one a second younger
C23_Witness ==
    /\ result.op = "is_session_valid"
    /\ args.session.form = "iso"
    /\ args.at - args.session.created_at = max_age
    /\ ~result.val.found

C23_WitnessYoung ==
    /\ result.op = "is_session_valid"
    /\ args.at - args.session.created_at = max_age - 1
    /\ result.val.found


\* C24 as stated: save_session, load_session and delete_session on a key
\* (site, zipcode) leave the record stored for every other key as it was:
\* they neither create it, nor change it, nor remove it.
C24_KeysIndependent ==
    [][(result'.op \in {"save_session", "load_session", "delete_session"}
          /\ calls' = calls + 1)
         => \A s \in StoreSites, z \in StoreZipcodes :
               <<s, z>> # <<args'.site, args'.zipcode>> => Stored(s, z)' = Stored(s, z)]_vars


\* C25 as stated: on the path of set_location that opens the location modal,
\* what set_location returns and the current_zipcode it leaves depend on the
\* driver only, and are the same with and without a SessionManager: True
\* and the zipcode when the submit stage succeeded, False and the zipcode of
\* before when a stage failed.
C25_StoreIsOptimisation ==
    (result.op = "set_location" /\ step = "idle" /\ interactions # {})
        => /\ result.val = (\E e \in interactions : e.stage = "submit_button" /\ e.done)
           /\ current_zipcode = IF result.val THEN args.zipcode ELSE before.zipcode


\* ------------------------------------------------------------------
\* C26: parse_product returns None exactly when no selector of the name
\* field gives a name; with a name it returns a record, whatever the other
\* fields hold.
C26_AbsentIffNoName ==
    result.op = "parse_product"
        => ((result.val = NoProduct) <=> (args.page.name = <<>>))

\* C27: in every record parse_product returns, discount_percent is present
\* exactly when both prices are present and original_price > current_price
\* (a current price of 0 included), and is then
\* (original_price - current_price) / original_price * 100.
C27_DiscountWhenCheaper ==
    (result.op = "parse_product" /\ result.val # NoProduct)
        => LET product == result.val
               current == product.current_price
               original == product.original_price
               applicable == /\ current.some /\ original.some
                             /\ original.amount > current.amount
           IN  /\ product.discount_percent.some <=> applicable
               /\ applicable
                    => product.discount_percent.num * original.amount
                         = (original.amount - current.amount) * 100
                             * product.discount_percent.den

\* C28: validate() is true exactly when name, url, site and zipcode are
\* non-empty and every numeric field that is present is within its bound:
\* prices, rating count and quantity at least 0, rating average from 0 to 5;
\* an absent field never makes the product invalid.
C28_ValidIffBounded ==
    result.op = "validate"
        => LET product == args.product
               AtLeast0(field) == field.some => field.amount >= 0
           IN  result.val
                 = (/\ product.name # <<>> /\ product.url # NoHref
                    /\ product.site # "" /\ product.zipcode # ""
                    /\ AtLeast0(product.current_price)
                    /\ AtLeast0(product.original_price)
                    /\ AtLeast0(product.rating_count)
                    /\ AtLeast0(product.quantity_available)
                    /\ product.rating_avg.some
                         => /\ 0 <= product.rating_avg.amount
                            /\ product.rating_avg.amount <= 5 * 100)

\* a product with a rating of 5, no price and no quantity is valid
C28_Witness ==
    /\ result.op = "validate" /\ result.val = TRUE
    /\ args.product.rating_avg = Some(5 * 100)
    /\ args.product.current_price = None
    /\ args.product.quantity_available = None


\* ------------------------------------------------------------------
\* C29: in every state of a ScrapeResult, from its creation on and after
\* products are appended to its list, products_found is the length of
\* products.
C29_CountIsLength ==
    result.op = "ScrapeResult"
        => result.val.products_found = Len(result.val.products)


\* ------------------------------------------------------------------
\* C30: when set_location works on the location modal it has navigated
\* first, and the stages come in the order location button, zipcode input,
\* submit button: a stage tries its selectors in list order, a selector that
\* fails only leads to the next one, the stage stops at the first selector
\* that succeeds, and no selector of a stage is tried unless every earlier
\* stage has succeeded.
C30_ProtocolOrder ==
    \A e \in interactions :
        /\ navigations = before.navigations + 1
        /\ Len(e.tried) >= 1
        /\ \A k \in DOMAIN e.tried :
              /\ e.tried[k].selector = k
              /\ e.tried[k].ok => k = Len(e.tried)
              /\ (~e.tried[k].ok /\ k < MaxSelectors) => k < Len(e.tried)
        /\ e.done = e.tried[Len(e.tried)].ok
        /\ \A stage \in StagesUpTo(e.stage) \ {e.stage} :
              \E earlier \in interactions : earlier.stage = stage /\ earlier.done

\* the location button is clicked with its first selector, and the submit
\* button with its second selector after the first one failed
C30_Witness ==
    /\ result.op = "set_location" /\ result.val = TRUE /\ step = "idle"
    /\ \E e \in interactions :
          /\ e.stage = "location_button"
          /\ e.tried = <<[selector |-> 1, ok |-> TRUE]>>
    /\ \E e \in interactions :
          /\ e.stage = "submit_button"
          /\ e.tried = <<[selector |-> 1, ok |-> FALSE], [selector |-> 2, ok |-> TRUE]>>


\* ------------------------------------------------------------------
\* C31: a set_location(z) called after a set_location(z) that succeeded and
\* saved its session, and that finds the session of z valid, takes the fast
\* path whatever cookie list was saved: it does not navigate, click or fill
\* and, unless the driver fails to install the cookies, it returns True.
C31_SavedSessionIsReused ==
    (/\ result.op \in {"none", "set_location"}
     /\ before.lookup = "valid" /\ started
     /\ before.zipcode = args.zipcode /\ before.saves >= 1)
        => /\ step \notin {"sl_get", "sl_button", "sl_input", "sl_submit", "sl_save"}
           /\ navigations = before.navigations
           /\ interactions = {}
           /\ (step = "idle" /\ result.why # "driver") => result.val = TRUE


\* ------------------------------------------------------------------
\* C32: scrape_site calls search_products only when set_location has
\* returned True and get_product_details only when search_products (or the
\* get_product_details before it) has returned; when set_location returns
\* False the run goes to its end, and it ends without a product, without a
\* product URL and without a navigation other than the one of set_location.
C32_RunOrder ==
    /\ [][/\ (main'.at = "search_products" /\ main.at # "search_products")
                => /\ main.at = "set_location" /\ step = "idle"
                   /\ result.op = "set_location" /\ result.val = TRUE
                   /\ step' # "idle"
          /\ (main'.at = "get_product_details" /\ main.at # "get_product_details")
                => /\ main.at = "for" /\ step = "idle"
                   /\ result.op \in {"search_products", "get_product_details"}
                   /\ step' # "idle"
          /\ (main.at = "set_location" /\ step = "idle" /\ main' # main
                /\ result.val = FALSE)
                => main'.at \in {"finally", "except"} /\ step' = "idle"]_vars
    /\ [](/\ (main.at # "set_location" /\ result.op = "set_location"
                /\ result.val = FALSE)
             => /\ main.at \in {"finally", "except", "return"}
                /\ products = <<>> /\ product_urls = <<>>
                /\ navigations <= 1
          /\ main.at \in {"start", "started"} => step = "idle" /\ result = NoResult)

\* set_location has navigated and returned False, and the run has ended
C32_Witness ==
    /\ main = At("return")
    /\ result.op = "set_location" /\ result.val = FALSE
    /\ navigations = 1 /\ products = <<>>


\* ------------------------------------------------------------------
\* the driver is closed in the one step that ends the run, which every path
\* takes through the finally clause, and nothing happens after it
C33_ClosedOnce ==
    /\ (main'.at = "return" /\ main.at # "return") => main.at = "finally"
    /\ main.at = "finally" => main'.at = "return" /\ ~started'
    /\ main.at = "return" => UNCHANGED vars

\* C33 as stated: every run ends with the driver closed, exactly once and as
\* the last thing done with the driver, whatever the path out of the run.
C33_DriverReleased ==
    /\ <>(main.at = "return" /\ ~started)
    /\ [][C33_ClosedOnce]_vars

\* C33: every run whose rate limiter grants at least one request per minute
\* ends with the driver closed, exactly once and as the last thing done with
\* the driver, whatever the path out of the run; a run ends with the driver
\* closed in no other way.
C33_DriverReleasedGivenRate ==
    /\ requests_per_minute >= 1 => <>(main.at = "return" /\ ~started)
    /\ [][C33_ClosedOnce]_vars

\* browser.start() has failed and the run has ended with the driver closed
C33_Witness ==
    /\ main = At("return") /\ ~started
    /\ result = NoResult /\ navigations = 0
    /\ requests_per_minute = 1


\* ------------------------------------------------------------------
\* what the RateLimiter holds for a site: for each of its four dictionaries,
\* whether the site is a key of it and with what value
Bucket(s) ==
    [d \in {"tokens", "last_refill", "backoff_multiplier", "last_request_time"} |->
        LET dict == CASE d = "tokens" -> tokens
                      [] d = "last_refill" -> last_refill
                      [] d = "backoff_multiplier" -> backoff_multiplier
                      [] OTHER -> last_request_time
        IN  [key |-> s \in DOMAIN dict, value |-> Get(dict, s, 0)]]

\* a step of an operation of the RateLimiter called for site s
OperationOn(s) ==
    \/ \E c \in Callers :
          \/ acquire(c, s)
          \/ site[c] = s /\ (acquire_poll(c) \/ acquire_delayed(c))
    \/ \E m \in Multipliers : trigger_backoff(s, m)
    \/ reset_backoff(s)
    \/ get_current_rate(s)
    \/ get_backoff_multiplier(s)
    \/ is_rate_limited(s)
    \/ get_wait_time(s)

\* C34: every step of acquire, trigger_backoff, reset_backoff and of the
\* introspection calls for one site leaves the token count, the last refill
\* time, the backoff multiplier and the last request time of every other
\* site as they are.
C34_SitesIndependent ==
    [][\A s \in Sites :
          OperationOn(s) => \A other \in Sites \ {s} : Bucket(other)' = Bucket(other)]_vars

\* both sites have a bucket and a backoff multiplier of their own: one token
\* of walmart is consumed and its multiplier doubled, target is as it was made
C34_Witness ==
    /\ DOMAIN tokens = Sites
    /\ tokens["walmart"] < tokens["target"]
    /\ DOMAIN backoff_multiplier = Sites
    /\ backoff_multiplier["walmart"] = 2 * Unit
    /\ backoff_multiplier["target"] = Unit


\* ------------------------------------------------------------------
\* the values a candidate of select_many yields: its non-empty values, up to
\* the element at which it raises
RECURSIVE Yields(_)
Yields(elements) ==
    IF elements = <<>> \/ Head(elements) = Broken THEN <<>>
    ELSE IF Head(elements) = NoHref THEN Yields(Tail(elements))
    ELSE <<Head(elements)>> \o Yields(Tail(elements))

\* C35: the list select_many returns holds values of one candidate only, the
\* first in list order that yields a non-empty value (none when there is no
\* such candidate), and at most limit values when a limit is given; so also
\* when a candidate raises part-way through.
C35_OneCandidateOnly ==
    result.op = "select_many"
        => LET yielding == {k \in DOMAIN args.selectors : Yields(args.selectors[k]) # <<>>}
               first == CHOOSE k \in yielding : \A j \in yielding : k <= j
               values == Yields(args.selectors[first])
           IN  /\ yielding = {} => result.val = <<>>
               /\ yielding # {}
                    => /\ Len(result.val) <= Len(values)
                       /\ result.val = SubSeq(values, 1, Len(result.val))
                       /\ ~args.limit.some => result.val = values
               /\ args.limit.some => Len(result.val) <= args.limit.amount

\* C36: select_one returns the value of the first candidate, in list order,
\* that does not raise and matches an element with a non-empty value (the
\* attribute when attr is given, else the text), and None only when there is
\* no such candidate; what it returns is never an empty text.
C36_FirstNonEmpty ==
    result.op = "select_one"
        => LET Value(k) == strip(IF args.attr THEN args.selectors[k].value
                                 ELSE args.selectors[k].text)
               matching == {k \in DOMAIN args.selectors :
                              /\ ~args.selectors[k].raises /\ args.selectors[k].found
                              /\ Value(k) # <<>>}
               first == CHOOSE k \in matching : \A j \in matching : k <= j
           IN  result.val = IF matching = {} THEN NoText
                            ELSE [found |-> TRUE, text |-> Value(first)]


\* ------------------------------------------------------------------
\* C37: parse_availability gives, in this order of precedence: for no text
\* or an empty one in_stock None, no quantity, 'unknown'; for a text with
\* 'out of stock', 'unavailable' or 'sold out' in any case False, 0,
\* 'out_of_stock'; for a text with 'limited' or 'only' True, the first
\* integer of the text (none without one), 'limited'; for every other text
\* True, no quantity, 'in_stock'.  The quantity is 0 whenever in_stock is False.
C37_AvailabilityPrecedence ==
    result.op = "parse_availability"
        => LET text == args.status_text
               Has(word) == Contains(lower(text), word)
               first == search(text, FALSE)
               Gives(in_stock, quantity, status) ==
                   /\ result.err = "none"
                   /\ result.val.in_stock = in_stock
                   /\ result.val.quantity = quantity
                   /\ result.val.status = status
           IN  /\ IF text = <<>> THEN Gives("None", None, "unknown")
                  ELSE IF \/ Has(lower(OutOfStock)) \/ Has(lower(Unavailable))
                          \/ Has(<<"s", "o", "l", "d", " ", "o", "u", "t">>)
                  THEN Gives("False", Some(0), "out_of_stock")
                  ELSE IF Has(lower(Limited)) \/ Has(<<"o", "n", "l", "y">>)
                  THEN \/ first.found /\ Gives("True", Some(int(first.whole)), "limited")
                       \/ ~first.found /\ Gives("True", None, "limited")
                  ELSE Gives("True", None, "in_stock")
               /\ result.val.in_stock = "False" => result.val.quantity = Some(0)

\* C38: normalize_price returns None or an amount that is not negative, and
\* for a range 'X - Y' the lower of the two amounts, in whichever order they
\* are written.
C38_LowerBoundOfRange ==
    result.op = "normalize_price"
        => /\ result.val.some => result.val.amount >= 0
           /\ Len(args.amounts) = 2
                => result.val = Some(Min(args.amounts[1], args.amounts[2]))


\* ------------------------------------------------------------------
\* C39: every record parse_product returns for a non-empty url passes
\* validate(): its name is not empty, its site is 'walmart', its zipcode is
\* current_zipcode, or 'unknown' when no location was set, and each of its
\* numbers is absent or within the bound validate() has for it.
C39_ParsedIsValid ==
    (result.op = "parse_product" /\ result.val # NoProduct /\ args.url # NoHref)
        => /\ validate(result.val)
           /\ result.val.name # <<>>
           /\ result.val.site = "walmart"
           /\ result.val.zipcode # ""
           /\ result.val.zipcode
                = IF current_zipcode = "None" THEN "unknown" ELSE current_zipcode

\* a record with a price, a quantity, a rating and a rating count, parsed
\* before any location was set
C39_Witness ==
    /\ result.op = "parse_product" /\ result.val # NoProduct
    /\ result.val.zipcode = "unknown"
    /\ result.val.current_price = Some(5 * 100)
    /\ result.val.quantity_available = Some(3)
    /\ result.val.rating_avg = Some(4 * 100 + 50)
    /\ result.val.rating_count = Some(12)
    /\ args.page.rating_avg # <<"7">>

====
